---------------------------- MODULE Spec2Model ----------------------------
(***************************************************************************)
(* A model of gradient-engineer's toolbox engine (app/toolbox.go), its     *)
(* Bubble Tea event loop (app/ui.go), the summarizer construction          *)
(* (app/summarize.go) and the process lifecycle in main.                   *)
(*                                                                         *)
(* Strings are sequences of atoms: an atom is a separator character        *)
(* ("/", " ", a tab, a newline) or an opaque run of ordinary characters.   *)
(* A path is a sequence of segments, a segment a string without "/".       *)
(* File contents are sequences of bytes (naturals).                        *)
(***************************************************************************)
EXTENDS Integers, Sequences, FiniteSets, TLC

(***************************************************************************)
(* Bounds of the model.                                                    *)
(***************************************************************************)
\* The longest diagnostics list a manifest of the model declares.
MaxDiag == 2

\* The lines the viewport can be scrolled down by.
MaxScroll == 1

(***************************************************************************)
(* Strings.                                                                *)
(***************************************************************************)
\* The one-atom string.
W(a) == <<a>>

EmptyStr == <<>>

\* unicode.IsSpace, restricted to the separators of the model.
IsSpace(a) == a \in {" ", "\t", "\n"}

\* strings.TrimSpace(s) == "".
IsBlank(s) == \A i \in 1..Len(s) : IsSpace(s[i])

\* strings.Fields: the maximal runs of non-space atoms, in order.
RECURSIVE FieldsFrom(_, _, _)
FieldsFrom(s, i, cur) ==
    IF i > Len(s)
    THEN IF cur = <<>> THEN <<>> ELSE <<cur>>
    ELSE IF IsSpace(s[i])
         THEN (IF cur = <<>> THEN <<>> ELSE <<cur>>) \o FieldsFrom(s, i + 1, <<>>)
         ELSE FieldsFrom(s, i + 1, Append(cur, s[i]))

Fields(s) == FieldsFrom(s, 1, <<>>)

\* strings.Join(parts, sep), computed by halves.
RECURSIVE JoinStr(_, _)
JoinStr(parts, sep) ==
    IF parts = <<>> THEN <<>>
    ELSE IF Len(parts) = 1 THEN parts[1]
    ELSE LET h == Len(parts) \div 2
         IN  JoinStr(SubSeq(parts, 1, h), sep) \o sep
                 \o JoinStr(SubSeq(parts, h + 1, Len(parts)), sep)

\* The parts of s[lo..hi] for a one-atom separator, computed by halves: the
\* last part of the left half and the first part of the right half are one
\* part.
RECURSIVE SplitRange(_, _, _, _)
SplitRange(s, sep, lo, hi) ==
    IF lo > hi THEN << <<>> >>
    ELSE IF lo = hi
         THEN IF s[lo] = sep THEN << <<>>, <<>> >> ELSE << <<s[lo]>> >>
    ELSE LET mid == (lo + hi) \div 2
             l   == SplitRange(s, sep, lo, mid)
             r   == SplitRange(s, sep, mid + 1, hi)
         IN  SubSeq(l, 1, Len(l) - 1) \o << l[Len(l)] \o r[1] >> \o Tail(r)

\* strings.Split(s, sep) for a one-atom separator: always at least one part.
Split(s, sep) == SplitRange(s, sep, 1, Len(s))

(***************************************************************************)
(* Paths: filepath.Join, filepath.Clean and filepath.Dir on absolute       *)
(* paths.  The root is the empty sequence of segments.                     *)
(***************************************************************************)
DotDot == W("..")

Dot == W(".")

\* The segments of a slash-separated name; empty segments are dropped, as
\* filepath.Clean does with repeated and trailing slashes.
Segments(name) == SelectSeq(Split(name, "/"), LAMBDA seg : seg # <<>>)

\* filepath.Clean of an absolute path given as segments: "." is dropped and
\* ".." removes the segment before it (at the root it is dropped).
RECURSIVE CleanFrom(_, _)
CleanFrom(done, rest) ==
    IF rest = <<>> THEN done
    ELSE IF Head(rest) = Dot THEN CleanFrom(done, Tail(rest))
    ELSE IF Head(rest) = DotDot
         THEN CleanFrom(IF done = <<>> THEN <<>> ELSE SubSeq(done, 1, Len(done) - 1),
                        Tail(rest))
         ELSE CleanFrom(Append(done, Head(rest)), Tail(rest))

\* filepath.Join(dir, name) where dir is an absolute path.
PathJoin(dir, name) == CleanFrom(<<>>, dir \o Segments(name))

\* filepath.Dir of an absolute path.
PathDir(p) == IF p = <<>> THEN <<>> ELSE SubSeq(p, 1, Len(p) - 1)

IsPrefix(p, q) == Len(p) <= Len(q) /\ SubSeq(q, 1, Len(p)) = p

\* The text of an absolute path: "/seg/seg...".
RECURSIVE PathString(_)
PathString(p) ==
    IF p = <<>> THEN <<>> ELSE W("/") \o Head(p) \o PathString(Tail(p))

(***************************************************************************)
(* The filesystem: a function from real paths (no symbolic link among the  *)
(* components) to nodes.  Path resolution follows symbolic links as the    *)
(* kernel does for stat, open, mkdir and symlink.                          *)
(***************************************************************************)
\* How many symbolic links one path resolution follows before it gives up.
MaxFollow == 2

DirNode == [kind |-> "dir", mode |-> 493, data |-> <<>>, link |-> <<>>]

FileNode(mode, data) == [kind |-> "file", mode |-> mode, data |-> data, link |-> <<>>]

LinkNode(target) == [kind |-> "symlink", mode |-> 511, data |-> <<>>, link |-> target]

\* os.TempDir() with TMPDIR not set: the directory MkdirTemp creates the
\* working directory in.
TempRoot == <<W("tmp")>>

\* The filesystem before the program starts: the root and the temp root.
EmptyFS == (<<>> :> DirNode) @@ (TempRoot :> DirNode)

NoPath == [ok |-> FALSE, path |-> <<>>]

\* Resolve the segments `rest` starting at the real directory `cur`.  The
\* result is a real path whose parent exists; the path itself may not exist.
RECURSIVE Walk(_, _, _, _)
Walk(f, cur, rest, depth) ==
    IF rest = <<>> THEN [ok |-> TRUE, path |-> cur]
    ELSE LET seg == Head(rest)
             nxt == Append(cur, seg)
         IN  IF seg = Dot THEN Walk(f, cur, Tail(rest), depth)
             ELSE IF seg = DotDot THEN Walk(f, PathDir(cur), Tail(rest), depth)
             ELSE IF nxt \notin DOMAIN f
                  THEN IF Tail(rest) = <<>> THEN [ok |-> TRUE, path |-> nxt] ELSE NoPath
             ELSE IF f[nxt].kind = "symlink"
                  THEN IF depth = 0 THEN NoPath
                       ELSE LET tgt == f[nxt].link
                                base == IF tgt # <<>> /\ tgt[1] = "/" THEN <<>> ELSE cur
                            IN  Walk(f, base, Segments(tgt) \o Tail(rest), depth - 1)
             ELSE IF f[nxt].kind = "file" /\ Tail(rest) # <<>> THEN NoPath
             ELSE Walk(f, nxt, Tail(rest), depth)

\* The real path of p, following a final symbolic link (stat, open).
RealPath(f, p) == Walk(f, <<>>, p, MaxFollow)

\* The real path of p, not following a final symbolic link (lstat, mkdir,
\* symlink): the parent is resolved and the last segment appended.
RealPathNoFollow(f, p) ==
    IF p = <<>> THEN [ok |-> TRUE, path |-> <<>>]
    ELSE LET par == Walk(f, <<>>, PathDir(p), MaxFollow)
         IN  IF par.ok /\ par.path \in DOMAIN f /\ f[par.path].kind = "dir"
             THEN [ok |-> TRUE, path |-> Append(par.path, p[Len(p)])]
             ELSE NoPath

\* os.Stat succeeds.
Exists(f, p) == LET r == RealPath(f, p) IN r.ok /\ r.path \in DOMAIN f

\* os.Stat(p): the node, for a path that Exists.
StatNode(f, p) == f[RealPath(f, p).path]

\* st.Mode()&0o111 != 0.
HasExecBit(mode) ==
    \/ mode % 2 = 1
    \/ (mode \div 8) % 2 = 1
    \/ (mode \div 64) % 2 = 1

\* The owner may write the file (mode&0o200 != 0).
HasOwnerWrite(mode) == (mode \div 128) % 2 = 1

\* os.Mkdir(p, 0755), with MkdirAll's tolerance of a directory that is there.
MkdirFS(f, p) ==
    LET r == RealPathNoFollow(f, p)
    IN  IF ~r.ok THEN [ok |-> FALSE, fs |-> f]
        ELSE IF r.path \in DOMAIN f
             THEN [ok |-> f[r.path].kind = "dir", fs |-> f]
             ELSE [ok |-> TRUE, fs |-> f @@ (r.path :> DirNode)]

\* os.MkdirAll(p, 0755).
RECURSIVE MkdirAllFS(_, _)
MkdirAllFS(f, p) ==
    IF Exists(f, p)
    THEN [ok |-> StatNode(f, p).kind = "dir", fs |-> f]
    ELSE IF p = <<>> THEN [ok |-> FALSE, fs |-> f]
    ELSE LET par == MkdirAllFS(f, PathDir(p))
         IN  IF ~par.ok THEN par ELSE MkdirFS(par.fs, p)

\* os.OpenFile(p, O_CREATE|O_RDWR, mode) followed by io.Copy of `data` and
\* Close.  An existing file is not truncated and keeps its mode: the new bytes
\* overwrite its beginning.  The process is taken not to run as root, so an
\* existing file without owner write permission cannot be opened.
WriteFileFS(f, p, mode, data) ==
    LET r == RealPath(f, p)
    IN  IF ~r.ok THEN [ok |-> FALSE, fs |-> f]
        ELSE IF r.path \in DOMAIN f
             THEN LET old == f[r.path]
                  IN  IF old.kind # "file" \/ ~HasOwnerWrite(old.mode)
                      THEN [ok |-> FALSE, fs |-> f]
                      ELSE [ok |-> TRUE,
                            fs |-> [f EXCEPT ![r.path].data =
                                      data \o SubSeq(old.data, Len(data) + 1, Len(old.data))]]
             ELSE [ok |-> TRUE, fs |-> f @@ (r.path :> FileNode(mode, data))]

\* os.Symlink(target, p): fails when p exists.
SymlinkFS(f, p, target) ==
    LET r == RealPathNoFollow(f, p)
    IN  IF ~r.ok \/ r.path \in DOMAIN f THEN [ok |-> FALSE, fs |-> f]
        ELSE [ok |-> TRUE, fs |-> f @@ (r.path :> LinkNode(target))]

\* RemoveAll that removes nothing.
RemoveAllFSNothing(f, p) == f

\* os.RemoveAll(p): p and everything below it; links are not followed.
RemoveAllFS(f, p) == [q \in {q \in DOMAIN f : ~IsPrefix(p, q)} |-> f[q]]

\* os.ReadFile(p).
CanReadFile(f, p) == Exists(f, p) /\ StatNode(f, p).kind = "file"

ReadFileFS(f, p) == StatNode(f, p).data

(***************************************************************************)
(* Go's int (timeout_seconds) and time.Duration are 64 bits wide.  A value *)
(* is its eight bytes in two's complement, the lowest byte first, and      *)
(* multiplication keeps the low eight bytes of the product.                *)
(***************************************************************************)
\* The 64-bit value of a small natural number.
I64(n) == [i \in 1..8 |-> IF i <= 4 THEN (n \div (256 ^ (i - 1))) % 256 ELSE 0]

IsZero64(x) == \A i \in 1..8 : x[i] = 0

IsNegative64(x) == x[8] >= 128

\* x > 0.
IsPositive64(x) == ~IsZero64(x) /\ ~IsNegative64(x)

\* The sum of the byte products a[i] * b[j] with i + j = k + 1, from i on.
RECURSIVE ColumnFrom(_, _, _, _)
ColumnFrom(a, b, k, i) ==
    IF i > k \/ i > Len(a) THEN 0
    ELSE (IF k + 1 - i <= Len(b) THEN a[i] * b[k + 1 - i] ELSE 0)
             + ColumnFrom(a, b, k, i + 1)

RECURSIVE MulFrom(_, _, _, _, _)
MulFrom(a, b, n, k, carry) ==
    IF k > n THEN <<>>
    ELSE LET s == carry + ColumnFrom(a, b, k, 1)
         IN  <<s % 256>> \o MulFrom(a, b, n, k + 1, s \div 256)

\* The low n bytes of the product of two byte strings.
MulBytes(a, b, n) == MulFrom(a, b, n, 1, 0)

\* The product of two 64-bit values, as Go computes it.
Mul64(a, b) == MulBytes(a, b, 8)

\* time.Second, in nanoseconds.
Second == I64(1000000000)

\* n * time.Second for a constant n.
Seconds(n) == Mul64(I64(n), Second)

(***************************************************************************)
(* The playbook (playbook/playbook.go) and the toolbox archive.            *)
(***************************************************************************)
PlaybookCommand(cmd, desc, secs) ==
    [Command |-> cmd, Description |-> desc, TimeoutSeconds |-> secs]

\* The command templates the manifests of the model are made of: one whose
\* binary the store provides, one whose binary no store entry provides, a
\* template without tokens, and one whose binary only the store with two
\* packages provides (in sbin).
CmdChoices ==
    << PlaybookCommand(<<"ls", " ", "-l">>, W("list"), I64(0)),
       PlaybookCommand(W("nope"), W("missing"), I64(7)),
       PlaybookCommand(W(" "), W("blank"), I64(0)),
       PlaybookCommand(<<"\t", "ps", " ", " ", "-e", " ", "f">>, W("procs"), I64(3)),
       PlaybookCommand(<<"ls", " ", "-l">>, W("minus one"),
                       <<255, 255, 255, 255, 255, 255, 255, 255>>),
       PlaybookCommand(<<"ls", " ", "-l">>, W("one"), I64(1)),
       PlaybookCommand(<<"ls", " ", "-l">>, W("9223372036"), <<4, 125, 193, 37, 2, 0, 0, 0>>),
       PlaybookCommand(<<"ls", " ", "-l">>, W("9223372037"), <<5, 125, 193, 37, 2, 0, 0, 0>>),
       PlaybookCommand(<<"ls", " ", "-l">>, W("2^55"), <<0, 0, 0, 0, 0, 0, 128, 0>>),
       PlaybookCommand(<<"ls", " ", "-l">>, W("18446744074"),
                       <<10, 250, 130, 75, 4, 0, 0, 0>>) >>

\* The templates the manifests of the full specification use.
MainCmds == {1, 2, 3}

\* The templates the manifests of the unattended specification use.
UnattendedCmds == {1, 4}

\* Templates of the binary the store provides with a timeout_seconds of zero,
\* below zero, small, and large: the largest number of seconds that is less
\* than 2^63 nanoseconds, the next one, 2^55, and the first above 2^64
\* nanoseconds.
TimeoutCmds == {1, 5, 6, 7, 8, 9, 10}

\* The bytes of a playbook.yaml: the first byte says whether system_prompt is
\* given, each further byte names one command of CmdChoices.
RECURSIVE YamlBodies(_, _)
YamlBodies(n, cmds) ==
    IF n = 0 THEN {<<>>}
    ELSE LET shorter == YamlBodies(n - 1, cmds)
         IN  shorter \cup {Append(b, c) : b \in {x \in shorter : Len(x) = n - 1},
                                          c \in cmds}

YamlChoices == {<<pr>> \o b : pr \in {0, 1}, b \in YamlBodies(MaxDiag, MainCmds)}

\* Manifests with a system prompt whose commands the two-package store
\* provides.
UnattendedYamlChoices == {<<1>> \o b : b \in YamlBodies(MaxDiag, UnattendedCmds)}

\* yaml.Unmarshal into playbook.PlaybookConfig.
YamlOk(data) ==
    /\ Len(data) >= 1
    /\ data[1] \in {0, 1}
    /\ \A i \in 2..Len(data) : data[i] \in 1..Len(CmdChoices)

Unmarshal(data) ==
    [SystemPrompt |-> IF data[1] = 1 THEN W("prompt") ELSE EmptyStr,
     Commands |-> [i \in 1..(Len(data) - 1) |-> CmdChoices[data[i + 1]]]]

\* A tar header together with the entry's content.
Header(name, type, mode, data, linkname) ==
    [Name |-> name, Typeflag |-> type, Mode |-> mode, Data |-> data, Linkname |-> linkname]

DirEntry(name) == Header(name, "dir", 493, <<>>, <<>>)

RegEntry(name, mode, data) == Header(name, "reg", mode, data, <<>>)

SymlinkEntry(name, target) == Header(name, "symlink", 511, <<>>, target)

\* An entry of a type Download does not extract (a hard link).
LinkEntry(name, target) == Header(name, "link", 420, <<>>, target)

\* An archive as toolbox/generate.go lays it out: the toolbox directory with
\* the package store, the proot wrapper and the playbook.
ToolboxArchive(yaml) ==
    << DirEntry(<<"toolbox", "/">>),
       RegEntry(<<"toolbox", "/", "nix", "/", "store", "/", "pkg-a", "/", "bin", "/", "ls">>,
                365, <<7>>),
       RegEntry(<<"toolbox", "/", "proot">>, 493, <<8>>),
       RegEntry(<<"toolbox", "/", "playbook.yaml">>, 420, yaml) >>

\* The archive of a store with a second package, which has its binary in
\* sbin.
TwoPackageArchive(yaml) ==
    SubSeq(ToolboxArchive(yaml), 1, 2)
        \o <<RegEntry(<<"toolbox", "/", "nix", "/", "store", "/", "pkg-b", "/", "sbin", "/", "ps">>,
                      493, <<9>>)>>
        \o SubSeq(ToolboxArchive(yaml), 3, 4)

\* What toolbox/generate.go puts into the archive on the given GOOS: the
\* package store and proot are added on linux only.
GenerateToolbox(goos, yaml) ==
    IF goos = "linux"
    THEN ToolboxArchive(yaml)
    ELSE << DirEntry(<<"toolbox", "/">>),
            RegEntry(<<"toolbox", "/", "playbook.yaml">>, 420, yaml) >>

GoodYaml == <<1, 1>>

\* Archives with an entry whose name has traversal segments.
TraversalArchives ==
    { <<RegEntry(<<"..", "/", "evil">>, 420, <<6>>)>> \o ToolboxArchive(GoodYaml),
      <<DirEntry(<<"toolbox", "/", "..", "/", "..", "/", "..", "/", "opt", "/", "x">>)>>
          \o ToolboxArchive(GoodYaml),
      <<SymlinkEntry(<<"..", "/", "ln">>, <<"/", "etc">>)>> \o ToolboxArchive(GoodYaml) }

\* An archive with an entry of an unsupported type after the first entries.
UnsupportedArchive ==
    SubSeq(ToolboxArchive(GoodYaml), 1, 2)
        \o <<LinkEntry(<<"toolbox", "/", "hl">>, <<"toolbox", "/", "proot">>)>>
        \o SubSeq(ToolboxArchive(GoodYaml), 3, 4)

\* An archive without a playbook.
NoPlaybookArchive == SubSeq(ToolboxArchive(GoodYaml), 1, 3)

\* What Download gets from the outside: whether MkdirTemp works, what opening
\* the source gives ("ok", "missing": open or GET fails, "badstatus": a status
\* other than 200, "badxz": no XZ stream), the archive, and the entry at which
\* the stream is corrupt (0: nowhere).  tmpdir is os.TempDir(), /tmp unless
\* TMPDIR names another directory.
Input(temp, source, archive, corruptAt) ==
    [temp |-> temp, source |-> source, archive |-> archive, corruptAt |-> corruptAt,
     tmpdir |-> TempRoot]

Inputs ==
    {Input(TRUE, "ok", ToolboxArchive(y), 0) : y \in YamlChoices}
    \cup {Input(TRUE, "ok", a, 0) : a \in TraversalArchives}
    \cup {Input(TRUE, "ok", UnsupportedArchive, 0),
          Input(TRUE, "ok", NoPlaybookArchive, 0),
          Input(TRUE, "ok", ToolboxArchive(GoodYaml), 3),
          Input(FALSE, "ok", ToolboxArchive(GoodYaml), 0)}
    \cup {Input(TRUE, s, ToolboxArchive(GoodYaml), 0) : s \in {"missing", "badstatus", "badxz"}}
    \cup {Input(TRUE, "ok", GenerateToolbox("darwin", y), 0) : y \in {<<1>>, GoodYaml}}

\* The inputs of the unattended specification.
UnattendedInputs == {Input(TRUE, "ok", TwoPackageArchive(y), 0) : y \in UnattendedYamlChoices}

\* What an archive can hold for one package of the store: nothing; a regular
\* file in place of the package directory; the binary in bin, in sbin, or in
\* both; a bin/ls without execute bits beside an sbin/ls, or alone; a
\* directory named bin/ls; a symbolic link to the other package in place of
\* the package directory.
StoreLayouts ==
    {"none", "file", "bin", "sbin", "both", "binNoExec", "noExec", "binDir", "link"}

StoreEntries(pkg, tag, layout) ==
    LET name(rest) == <<"toolbox", "/", "nix", "/", "store", "/", pkg>> \o rest
    IN  CASE layout = "file" -> <<RegEntry(name(<<>>), 493, <<tag>>)>>
          [] layout = "bin" -> <<RegEntry(name(<<"/", "bin", "/", "ls">>), 365, <<tag, 1>>)>>
          [] layout = "sbin" -> <<RegEntry(name(<<"/", "sbin", "/", "ls">>), 493, <<tag, 2>>)>>
          [] layout = "both" ->
                 <<RegEntry(name(<<"/", "sbin", "/", "ls">>), 493, <<tag, 2>>),
                   RegEntry(name(<<"/", "bin", "/", "ls">>), 493, <<tag, 1>>)>>
          [] layout = "binNoExec" ->
                 <<RegEntry(name(<<"/", "bin", "/", "ls">>), 420, <<tag, 1>>),
                   RegEntry(name(<<"/", "sbin", "/", "ls">>), 457, <<tag, 2>>)>>
          [] layout = "noExec" -> <<RegEntry(name(<<"/", "bin", "/", "ls">>), 420, <<tag, 1>>)>>
          [] layout = "binDir" -> <<DirEntry(name(<<"/", "bin", "/", "ls", "/">>))>>
          [] layout = "link" -> <<SymlinkEntry(name(<<>>), W("pkg-b"))>>
          [] OTHER -> <<>>

\* The toolbox archive with the given entries in place of the package store.
BundleArchive(entries, yaml) ==
    <<DirEntry(<<"toolbox", "/">>)>> \o entries \o SubSeq(ToolboxArchive(yaml), 3, 4)

\* Archives that name a path more than once: a file written twice with the
\* earlier content longer, shorter, as long, or read-only, and a playbook
\* that replaces a longer one.
RewrittenArchives ==
    { BundleArchive(<<ToolboxArchive(GoodYaml)[2],
                      RegEntry(<<"toolbox", "/", "notes">>, w[1], w[2]),
                      RegEntry(<<"toolbox", "/", "notes">>, 420, w[3])>>, GoodYaml) :
        w \in { <<420, <<1, 2, 3>>, <<9>>>>, <<420, <<1>>, <<8, 9>>>>,
                <<420, <<1, 2>>, <<3, 4>>>>, <<292, <<1, 2>>, <<3>>>> } }
    \cup { ToolboxArchive(<<1, 1, 1>>)
               \o <<RegEntry(<<"toolbox", "/", "playbook.yaml">>, 420, GoodYaml)>> }

\* Archives with symbolic links: one to a directory of the archive with a
\* file written through it, one to a path outside, one to its own parent, and
\* one to the absolute path of a working directory with a file written
\* through it.
LinkedArchives ==
    { BundleArchive(<<ToolboxArchive(GoodYaml)[2],
                      SymlinkEntry(<<"toolbox", "/", "cur">>, W("nix")),
                      RegEntry(<<"toolbox", "/", "cur", "/", "readme">>, 420, <<5>>)>>,
                    GoodYaml),
      BundleArchive(<<ToolboxArchive(GoodYaml)[2],
                      SymlinkEntry(<<"toolbox", "/", "etc">>, <<"/", "etc">>)>>, GoodYaml),
      BundleArchive(<<ToolboxArchive(GoodYaml)[2],
                      SymlinkEntry(<<"toolbox", "/", "nix", "/", "up">>, W(".."))>>,
                    GoodYaml),
      BundleArchive(<<ToolboxArchive(GoodYaml)[2],
                      SymlinkEntry(<<"toolbox", "/", "self">>,
                                   <<"/", "tmp", "/", "toolbox_1", "/", "toolbox", "/", "nix">>),
                      RegEntry(<<"toolbox", "/", "self", "/", "readme">>, 420, <<5>>)>>,
                    GoodYaml) }

\* The inputs of the specification of bundles.
BundleInputs ==
    {Input(TRUE, "ok", ToolboxArchive(<<1, c>>), 0) : c \in TimeoutCmds}
    \cup {Input(TRUE, "ok",
                BundleArchive(StoreEntries("pkg-a", 1, a) \o StoreEntries("pkg-b", 2, b),
                              GoodYaml), 0) :
             a \in StoreLayouts, b \in StoreLayouts \ {"link"}}
    \cup {Input(TRUE, "ok", a, 0) :
             a \in RewrittenArchives \cup LinkedArchives \cup TraversalArchives
                      \cup {UnsupportedArchive}}

(***************************************************************************)
(* Toolbox (app/toolbox.go).  The Go value "" of TempDir is NoDir; a nil   *)
(* error is NoErr, a nil Playbook is NoPlaybook.                           *)
(***************************************************************************)
NoDir == <<>>

NoErr == "nil"

NoPlaybook == [SystemPrompt |-> EmptyStr, Commands |-> <<>>, loaded |-> FALSE]

Loaded(cfg) == [SystemPrompt |-> cfg.SystemPrompt, Commands |-> cfg.Commands, loaded |-> TRUE]

\* The directory os.MkdirTemp("", "toolbox_*") creates.
WorkDir == Append(TempRoot, W("toolbox_1"))

\* ExtractEntry with an entry of another type passed over.
ExtractEntrySkippingOther(f, tempDir, h) ==
    LET targetPath == PathJoin(tempDir, h.Name)
        par        == MkdirAllFS(f, PathDir(targetPath))
    IN  IF ~par.ok THEN [fs |-> par.fs, err |-> "failed to create directory"]
        ELSE CASE h.Typeflag = "dir" ->
                    LET r == MkdirAllFS(par.fs, targetPath)
                    IN  [fs |-> r.fs,
                         err |-> IF r.ok THEN NoErr ELSE "failed to create directory"]
               [] h.Typeflag = "reg" ->
                    LET r == WriteFileFS(par.fs, targetPath, h.Mode, h.Data)
                    IN  [fs |-> r.fs,
                         err |-> IF r.ok THEN NoErr ELSE "failed to create file"]
               [] h.Typeflag = "symlink" ->
                    LET r == SymlinkFS(par.fs, targetPath, h.Linkname)
                    IN  [fs |-> r.fs,
                         err |-> IF r.ok THEN NoErr ELSE "failed to create symlink"]
               [] OTHER -> [fs |-> par.fs, err |-> NoErr]

\* ExtractEntry with the target path made from the first working directory
\* whatever directory is given.
ExtractEntryIntoFirst(f, tempDir, h) ==
    LET targetPath == PathJoin(WorkDir, h.Name)
        par        == MkdirAllFS(f, PathDir(targetPath))
    IN  IF ~par.ok THEN [fs |-> par.fs, err |-> "failed to create directory"]
        ELSE CASE h.Typeflag = "dir" ->
                    LET r == MkdirAllFS(par.fs, targetPath)
                    IN  [fs |-> r.fs,
                         err |-> IF r.ok THEN NoErr ELSE "failed to create directory"]
               [] h.Typeflag = "reg" ->
                    LET r == WriteFileFS(par.fs, targetPath, h.Mode, h.Data)
                    IN  [fs |-> r.fs,
                         err |-> IF r.ok THEN NoErr ELSE "failed to create file"]
               [] h.Typeflag = "symlink" ->
                    LET r == SymlinkFS(par.fs, targetPath, h.Linkname)
                    IN  [fs |-> r.fs,
                         err |-> IF r.ok THEN NoErr ELSE "failed to create symlink"]
               [] OTHER -> [fs |-> par.fs, err |-> "unsupported file type"]

\* The body of Download's loop for one tar header: the target path, the
\* parent directories, then the entry by its type.
ExtractEntry(f, tempDir, h) ==
    LET targetPath == PathJoin(tempDir, h.Name)
        par        == MkdirAllFS(f, PathDir(targetPath))
    IN  IF ~par.ok THEN [fs |-> par.fs, err |-> "failed to create directory"]
        ELSE CASE h.Typeflag = "dir" ->
                    LET r == MkdirAllFS(par.fs, targetPath)
                    IN  [fs |-> r.fs,
                         err |-> IF r.ok THEN NoErr ELSE "failed to create directory"]
               [] h.Typeflag = "reg" ->
                    LET r == WriteFileFS(par.fs, targetPath, h.Mode, h.Data)
                    IN  [fs |-> r.fs,
                         err |-> IF r.ok THEN NoErr ELSE "failed to create file"]
               [] h.Typeflag = "symlink" ->
                    LET r == SymlinkFS(par.fs, targetPath, h.Linkname)
                    IN  [fs |-> r.fs,
                         err |-> IF r.ok THEN NoErr ELSE "failed to create symlink"]
               [] OTHER -> [fs |-> par.fs, err |-> "unsupported file type"]

\* Download's loop over the archive from entry i on, into tempDir: the
\* filesystem and the error it ends with.
RECURSIVE ExtractFrom(_, _, _, _)
ExtractFrom(f, tempDir, archive, i) ==
    IF i > Len(archive) THEN [fs |-> f, err |-> NoErr]
    ELSE LET r == ExtractEntry(f, tempDir, archive[i])
         IN  IF r.err # NoErr THEN r ELSE ExtractFrom(r.fs, tempDir, archive, i + 1)

\* The names a directory listing can hold in the model, in os.ReadDir's order
\* (sorted by filename).
SortedNames == <<W("pkg-a"), W("pkg-b")>>

\* IsExecutableFile without the look at the execute bits.
IsExecutableFileAnyMode(f, candidate) ==
    Exists(f, candidate) /\ StatNode(f, candidate).kind # "dir"

\* One candidate of the resolver: os.Stat succeeds, not a directory, and at
\* least one execute bit.
IsExecutableFile(f, candidate) ==
    /\ Exists(f, candidate)
    /\ StatNode(f, candidate).kind # "dir"
    /\ HasExecBit(StatNode(f, candidate).mode)

\* The resolver's search from listing position k on: the first store entry
\* that is a directory and holds bin/<name> or sbin/<name>; NoDir if none.
RECURSIVE FindBinaryFrom(_, _, _, _)
FindBinaryFrom(f, storeDir, binName, k) ==
    IF k > Len(SortedNames) \/ ~Exists(f, storeDir) \/ StatNode(f, storeDir).kind # "dir"
    THEN NoDir
    ELSE LET e    == Append(RealPath(f, storeDir).path, SortedNames[k])
             inBin  == PathJoin(storeDir \o <<SortedNames[k], W("bin")>>, binName)
             inSbin == PathJoin(storeDir \o <<SortedNames[k], W("sbin")>>, binName)
         IN  IF e \notin DOMAIN f \/ f[e].kind # "dir"
             THEN FindBinaryFrom(f, storeDir, binName, k + 1)
             ELSE IF IsExecutableFile(f, inBin) THEN inBin
             ELSE IF IsExecutableFile(f, inSbin) THEN inSbin
             ELSE FindBinaryFrom(f, storeDir, binName, k + 1)

FindBinary(f, storeDir, binName) == FindBinaryFrom(f, storeDir, binName, 1)

\* The timeout of a command without a positive timeout_seconds, in seconds.
DefaultTimeout == 5

\* The timeout a ResolvedCommand carries, a time.Duration.
EffectiveTimeout(c) ==
    IF IsPositive64(c.TimeoutSeconds)
    THEN Mul64(c.TimeoutSeconds, Second)
    ELSE Seconds(DefaultTimeout)

DiagnosticCommand(cmd, display, spec, timeout) ==
    [Command |-> cmd, Display |-> display, Spec |-> spec, Timeout |-> timeout]

\* prootPrefix + " " + resolved [+ " " + strings.Join(args, " ")].
CommandString(tempDir, resolved, args) ==
    LET toolboxPath == Append(tempDir, W("toolbox"))
        prootPath   == Append(toolboxPath, W("proot"))
        prootPrefix == PathString(prootPath) \o <<" ", "-b", " ">>
                          \o PathString(toolboxPath) \o <<"/", "nix:", "/", "nix">>
    IN  IF Len(args) > 0
        THEN prootPrefix \o W(" ") \o PathString(resolved) \o W(" ") \o JoinStr(args, W(" "))
        ELSE prootPrefix \o W(" ") \o PathString(resolved)

\* ResolveFrom with a command that cannot be resolved skipped instead of
\* ending the resolution.
RECURSIVE ResolveFromSkipping(_, _, _, _, _)
ResolveFromSkipping(f, tempDir, cmds, i, acc) ==
    IF i > Len(cmds) THEN [cmds |-> acc, err |-> NoErr]
    ELSE LET c        == cmds[i]
             parts    == Fields(c.Command)
             storeDir == tempDir \o <<W("toolbox"), W("nix"), W("store")>>
         IN  IF Len(parts) = 0 \/ FindBinary(f, storeDir, parts[1]) = NoDir
             THEN ResolveFromSkipping(f, tempDir, cmds, i + 1, acc)
             ELSE ResolveFromSkipping(f, tempDir, cmds, i + 1,
                      Append(acc, DiagnosticCommand(
                          CommandString(tempDir, FindBinary(f, storeDir, parts[1]), Tail(parts)),
                          c.Description, i, EffectiveTimeout(c))))

\* ResolveFrom with each resolved command put before the earlier ones.
RECURSIVE ResolveFromPrepending(_, _, _, _, _)
ResolveFromPrepending(f, tempDir, cmds, i, acc) ==
    IF i > Len(cmds) THEN [cmds |-> acc, err |-> NoErr]
    ELSE LET c        == cmds[i]
             parts    == Fields(c.Command)
             storeDir == tempDir \o <<W("toolbox"), W("nix"), W("store")>>
         IN  IF Len(parts) = 0 \/ FindBinary(f, storeDir, parts[1]) = NoDir
             THEN [cmds |-> <<>>, err |-> "binary not found in toolbox nix store"]
             ELSE ResolveFromPrepending(f, tempDir, cmds, i + 1,
                      <<DiagnosticCommand(
                          CommandString(tempDir, FindBinary(f, storeDir, parts[1]), Tail(parts)),
                          c.Description, i, EffectiveTimeout(c))>> \o acc)

\* The resolver's loop over cfg.Commands from index i on, `acc` being the
\* result so far: the first command that cannot be resolved ends it with an
\* error and no result.
RECURSIVE ResolveFrom(_, _, _, _, _)
ResolveFrom(f, tempDir, cmds, i, acc) ==
    IF i > Len(cmds) THEN [cmds |-> acc, err |-> NoErr]
    ELSE LET c        == cmds[i]
             parts    == Fields(c.Command)
             storeDir == tempDir \o <<W("toolbox"), W("nix"), W("store")>>
         IN  IF Len(parts) = 0 THEN [cmds |-> <<>>, err |-> "command is empty"]
             ELSE LET resolved == FindBinary(f, storeDir, parts[1])
                  IN  IF resolved = NoDir
                      THEN [cmds |-> <<>>, err |-> "binary not found in toolbox nix store"]
                      ELSE ResolveFrom(f, tempDir, cmds, i + 1,
                               Append(acc, DiagnosticCommand(
                                   CommandString(tempDir, resolved, Tail(parts)),
                                   c.Description, i, EffectiveTimeout(c))))

\* GetDiagnosticCommands resolving only as long as no playbook is stored on
\* the Toolbox.
GetDiagnosticCommandsOnce(t, f) ==
    IF t.TempDir = NoDir \/ t.Playbook.loaded THEN [cmds |-> <<>>, err |-> NoErr, tb |-> t]
    ELSE LET playbookPath == t.TempDir \o <<W("toolbox"), W("playbook.yaml")>>
         IN  IF ~CanReadFile(f, playbookPath)
             THEN [cmds |-> <<>>, err |-> "failed to read playbook.yaml from toolbox", tb |-> t]
             ELSE IF ~YamlOk(ReadFileFS(f, playbookPath))
             THEN [cmds |-> <<>>, err |-> "failed to parse playbook.yaml", tb |-> t]
             ELSE LET cfg == Unmarshal(ReadFileFS(f, playbookPath))
                      r   == ResolveFrom(f, t.TempDir, cfg.Commands, 1, <<>>)
                  IN  [cmds |-> r.cmds, err |-> r.err,
                       tb |-> [t EXCEPT !.Playbook = Loaded(cfg)]]

\* Toolbox.GetDiagnosticCommands: the commands, the error and the Toolbox
\* after the call (the playbook is stored as soon as it is parsed).
GetDiagnosticCommands(t, f) ==
    IF t.TempDir = NoDir THEN [cmds |-> <<>>, err |-> NoErr, tb |-> t]
    ELSE LET playbookPath == t.TempDir \o <<W("toolbox"), W("playbook.yaml")>>
         IN  IF ~CanReadFile(f, playbookPath)
             THEN [cmds |-> <<>>, err |-> "failed to read playbook.yaml from toolbox", tb |-> t]
             ELSE IF ~YamlOk(ReadFileFS(f, playbookPath))
             THEN [cmds |-> <<>>, err |-> "failed to parse playbook.yaml", tb |-> t]
             ELSE LET cfg == Unmarshal(ReadFileFS(f, playbookPath))
                      r   == ResolveFrom(f, t.TempDir, cfg.Commands, 1, <<>>)
                  IN  [cmds |-> r.cmds, err |-> r.err,
                       tb |-> [t EXCEPT !.Playbook = Loaded(cfg)]]

\* Cleanup with the directory removed and the recorded path kept.
CleanupKeepingPath(t, f, removeOk) ==
    IF t.TempDir = NoDir THEN [tb |-> t, fs |-> f, err |-> NoErr]
    ELSE IF ~removeOk THEN [tb |-> t, fs |-> f, err |-> "failed to remove temp directory"]
    ELSE [tb |-> t, fs |-> RemoveAllFS(f, t.TempDir), err |-> NoErr]

\* Toolbox.Cleanup, given whether os.RemoveAll succeeds: the Toolbox and the
\* filesystem after the call, and the error it returns.
Cleanup(t, f, removeOk) ==
    IF t.TempDir = NoDir THEN [tb |-> t, fs |-> f, err |-> NoErr]
    ELSE IF ~removeOk THEN [tb |-> t, fs |-> f, err |-> "failed to remove temp directory"]
    ELSE [tb |-> [t EXCEPT !.TempDir = NoDir], fs |-> RemoveAllFS(f, t.TempDir),
          err |-> NoErr]

\* The argv the Executor starts the child process with: strings.Fields of
\* the invocation string.
Argv(cmd) == Fields(cmd.Command)

\* The lines Executor keeps of a command's output.
MaxLines == 100

\* lines := strings.Split(output, "\n"); the last MaxLines of them; Join.
TailLines(output) ==
    LET lines == Split(output, "\n")
        kept  == IF Len(lines) > MaxLines
                 THEN SubSeq(lines, Len(lines) - MaxLines + 1, Len(lines))
                 ELSE lines
    IN  JoinStr(kept, W("\n"))

\* The timeout the Executor uses when the command carries none.
FallbackTimeout == 30

\* The deadline ExecuteDiagnosticCommand sets, a time.Duration.
ExecTimeout(cmd) ==
    IF IsZero64(cmd.Timeout) THEN Seconds(FallbackTimeout) ELSE cmd.Timeout

\* What running the child process can give: it exits with status zero having
\* printed nothing or a line; CombinedOutput returns an error (non-zero exit)
\* before the deadline; or the deadline expires while it runs, it is killed
\* and CombinedOutput returns an error with the output so far.  `err` is the
\* text of the error CombinedOutput returns.
ProcOutcomes ==
    { [failed |-> FALSE, deadline |-> FALSE, output |-> EmptyStr, err |-> "nil"],
      [failed |-> FALSE, deadline |-> FALSE, output |-> <<"hi", "\n">>, err |-> "nil"],
      [failed |-> TRUE, deadline |-> FALSE, output |-> <<"hi", "\n">>,
       err |-> "exit status 1"],
      [failed |-> TRUE, deadline |-> TRUE, output |-> <<"par">>, err |-> "signal: killed"] }

\* The child process cannot be started (the wrapper is missing or cannot be
\* executed): CombinedOutput returns an error and no output.
StartFailure ==
    [failed |-> TRUE, deadline |-> FALSE, output |-> EmptyStr,
     err |-> "fork/exec: no such file or directory"]

\* The output of a command that prints the lines numbered from..to, each
\* ended by a newline.
Lines(from, to) ==
    [i \in 1..(2 * (to - from + 1)) |->
        IF i % 2 = 1 THEN ToString(from + (i \div 2)) ELSE "\n"]

\* A child process that exits with status zero having printed n lines, for
\* n around the number of lines that is kept.
LongProcOutcomes ==
    { [failed |-> FALSE, deadline |-> FALSE, output |-> Lines(1, n), err |-> "nil"] :
        n \in {0, 1, MaxLines - 1, MaxLines, MaxLines + 1} }

\* No child process has been run (yet).
NoProc == [failed |-> FALSE, deadline |-> FALSE, output |-> EmptyStr, err |-> "nil"]

\* What ExecuteDiagnosticCommand returns: the output and the error; errText
\* is the text of an error that is made from the command's run.
ExecResult(output, err) == [output |-> output, err |-> err, errText |-> EmptyStr]

\* fmt.Errorf("command '%s' failed: %w\nOutput: %s", cmd.Display, err, output).
ExecFailure(display, proc) ==
    [output |-> EmptyStr, err |-> "command failed",
     errText |-> <<"command '">> \o display \o <<"' failed: ", proc.err, "\n", "Output: ">>
                    \o proc.output]

\* ExecuteDiagnosticCommand with the failure's error made without the exit
\* information and the output.
ExecuteDiagnosticCommandBareError(t, cmd, proc) ==
    IF t.TempDir = NoDir
    THEN [res |-> ExecResult(EmptyStr, "toolbox not downloaded yet"), ran |-> FALSE]
    ELSE IF proc.failed /\ ~proc.deadline
    THEN [res |-> ExecResult(EmptyStr, "command failed"), ran |-> TRUE]
    ELSE [res |-> ExecResult(TailLines(proc.output), NoErr), ran |-> TRUE]

\* ExecuteDiagnosticCommand with a child process started whatever the
\* command and the Toolbox are.
ExecuteDiagnosticCommandUnchecked(t, cmd, proc) ==
    IF proc.failed /\ ~proc.deadline
    THEN [res |-> ExecFailure(cmd.Display, proc), ran |-> TRUE]
    ELSE [res |-> ExecResult(TailLines(proc.output), NoErr), ran |-> TRUE]

\* ExecuteDiagnosticCommand with every error of CombinedOutput returned, the
\* expired deadline not looked at.
ExecuteDiagnosticCommandNoDeadline(t, cmd, proc) ==
    IF t.TempDir = NoDir
    THEN [res |-> ExecResult(EmptyStr, "toolbox not downloaded yet"), ran |-> FALSE]
    ELSE IF proc.failed
    THEN [res |-> ExecResult(EmptyStr, "command failed"), ran |-> TRUE]
    ELSE [res |-> ExecResult(proc.output, NoErr), ran |-> TRUE]

\* Toolbox.ExecuteDiagnosticCommand, given what the child process does.
\* `ran` tells whether a child process was started.  With a deadline that has
\* passed when the context is made (a negative timeout), exec.Cmd.Start
\* returns the context's error, which counts as the expired deadline.
ExecuteDiagnosticCommand(t, cmd, proc) ==
    IF t.TempDir = NoDir
    THEN [res |-> ExecResult(EmptyStr, "toolbox not downloaded yet"), ran |-> FALSE]
    ELSE IF IsBlank(cmd.Command)
    THEN [res |-> ExecResult(EmptyStr, "binary not found in toolbox nix store"), ran |-> FALSE]
    ELSE IF Len(Argv(cmd)) = 0
    THEN [res |-> ExecResult(EmptyStr, "empty command"), ran |-> FALSE]
    ELSE IF IsNegative64(ExecTimeout(cmd))
    THEN [res |-> ExecResult(TailLines(EmptyStr), NoErr), ran |-> FALSE]
    ELSE IF proc.failed /\ ~proc.deadline
    THEN [res |-> ExecFailure(cmd.Display, proc), ran |-> TRUE]
    ELSE [res |-> ExecResult(TailLines(proc.output), NoErr), ran |-> TRUE]

(***************************************************************************)
(* Summarizer (app/summarize.go).                                          *)
(***************************************************************************)
Env(anthropic, openrouter, openai, base, fk) ==
    [ANTHROPIC_API_KEY |-> anthropic, OPENROUTER_API_KEY |-> openrouter,
     OPENAI_API_KEY |-> openai, OPENAI_BASE_URL |-> base, fk |-> fk]

HasPrefix(s, atom) == s # <<>> /\ s[1] = atom

Summarizer(provider, model, models, disabled, key, base) ==
    [provider |-> provider, model |-> model, models |-> models, disabled |-> disabled,
     apiKey |-> key, baseURL |-> base]

OpenRouterURL == W("https://openrouter.ai/api/v1")

\* NewSummarizer: the provider is chosen from the environment and the
\* embedded fallback key fk.
NewSummarizer(e) ==
    LET anthropicKey  == e.ANTHROPIC_API_KEY
        openAIKey     == e.OPENAI_API_KEY
        openRouterKey == IF e.OPENROUTER_API_KEY = EmptyStr /\ HasPrefix(openAIKey, "sk-or-v1-")
                         THEN openAIKey ELSE e.OPENROUTER_API_KEY
        usingOpenRouter == openRouterKey # EmptyStr
        usingFK         == openRouterKey = EmptyStr /\ openAIKey = EmptyStr
        baseURL == IF e.OPENAI_BASE_URL # EmptyStr THEN e.OPENAI_BASE_URL
                   ELSE IF usingOpenRouter \/ usingFK THEN OpenRouterURL
                   ELSE EmptyStr
        key == IF usingOpenRouter THEN openRouterKey
               ELSE IF usingFK THEN e.fk
               ELSE openAIKey
    IN  IF IsBlank(anthropicKey) /\ IsBlank(openRouterKey) /\ IsBlank(openAIKey) /\ IsBlank(e.fk)
        THEN Summarizer("none", EmptyStr, <<>>, TRUE, EmptyStr, EmptyStr)
        ELSE IF ~IsBlank(anthropicKey)
        THEN Summarizer("anthropic", W("claude-sonnet-4-0"), <<>>, FALSE, anthropicKey, EmptyStr)
        ELSE Summarizer("openai",
                 IF usingOpenRouter THEN W("openai/gpt-4.1")
                 ELSE IF usingFK THEN W("deepseek/deepseek-chat-v3.1:free")
                 ELSE W("gpt-4.1"),
                 IF ~usingOpenRouter /\ usingFK
                 THEN <<W("deepseek/deepseek-chat-v3-0324:free"), W("moonshotai/kimi-k2:free"),
                        W("meta-llama/llama-3.3-70b-instruct:free")>>
                 ELSE <<>>,
                 FALSE, key, baseURL)

\* The environments of the model: no key at all, only the embedded fallback
\* key, and a key set by the user.
EnvChoices ==
    { Env(EmptyStr, EmptyStr, EmptyStr, EmptyStr, EmptyStr),
      Env(EmptyStr, EmptyStr, EmptyStr, EmptyStr, W("fk-key")),
      Env(W("ant-key"), EmptyStr, EmptyStr, EmptyStr, EmptyStr) }

\* No API key is set in the environment.
NoApiKeySet(e) ==
    /\ e.ANTHROPIC_API_KEY = EmptyStr
    /\ e.OPENROUTER_API_KEY = EmptyStr
    /\ e.OPENAI_API_KEY = EmptyStr

SummaryCommand(desc, output) == [Description |-> desc, Output |-> output]

\* The user message with the retained pairs numbered 1, 2, ... in the order
\* they are kept.
RECURSIVE UserContentRenumbered(_, _)
UserContentRenumbered(commands, specs) ==
    IF commands = <<>> THEN EmptyStr
    ELSE LET front == SubSeq(commands, 1, Len(commands) - 1)
             c     == commands[Len(commands)]
             kept  == Len(SelectSeq(commands, LAMBDA x : ~IsBlank(x.Output)))
         IN  IF IsBlank(c.Output) THEN UserContentRenumbered(front, specs)
             ELSE UserContentRenumbered(front, specs)
                      \o <<"Command ", ToString(kept), ": ">>
                      \o specs[c.Description].Description
                      \o <<"\n">> \o c.Output \o <<"\n", "\n">>

\* Summarize's loop over the pairs, from pair i on: a pair whose output is
\* empty after strings.TrimSpace is passed over; the others are written as
\* "Command %d: %s\n" with i+1 (i counts from 0 in the code) and the
\* description, the output, and an empty line.
RECURSIVE UserContentFrom(_, _, _)
UserContentFrom(commands, specs, i) ==
    IF i > Len(commands) THEN EmptyStr
    ELSE LET c == commands[i]
         IN  IF IsBlank(c.Output) THEN UserContentFrom(commands, specs, i + 1)
             ELSE <<"Command ", ToString(i), ": ">>
                      \o specs[c.Description].Description
                      \o <<"\n">> \o c.Output \o <<"\n", "\n">>
                      \o UserContentFrom(commands, specs, i + 1)

\* The text of the user message Summarize sends; a pair's Description points
\* to the command of the playbook (specs) it was made from.
UserContent(commands, specs) == UserContentFrom(commands, specs, 1)

\* What the summarization call can return: a text, or an error.
LlmOutcomes == { [summary |-> W("summary"), err |-> NoErr],
                 [summary |-> EmptyStr, err |-> "llm error"] }

(***************************************************************************)
(* The state.                                                              *)
(***************************************************************************)
VARIABLES
    input,   \* what Download gets from the outside (fixed for the run)
    env,     \* the environment variables and the embedded key (fixed)
    fs,      \* the filesystem
    tb,      \* the Toolbox: TempDir, Playbook
    dl,      \* the download goroutine: pc, next entry, its local tempDir, its error
    m,       \* the Bubble Tea model (the event loop's state)
    ex,      \* the Executor goroutines, one per launched command: pc and result
    llm,     \* the summarization goroutine: pc, request, result
    main,    \* the main goroutine: pc and exit code
    quit,    \* a QuitMsg is on its way to the event loop
    hist     \* history: what has been started, printed and triggered so far

vars == <<input, env, fs, tb, dl, m, ex, llm, main, quit, hist>>

(***************************************************************************)
(* The event loop (app/ui.go).                                             *)
(***************************************************************************)
\* commandStatus.
statusPending == "pending"

statusRunning == "running"

statusSuccess == "success"

statusError == "error"

Terminal == {statusSuccess, statusError}

\* NewModel: the commands are resolved before any download, so there are none.
NewModel(t, f, e) ==
    LET cmds == GetDiagnosticCommands(t, f).cmds
    IN  [commands |-> cmds,
         statuses |-> [i \in 1..Len(cmds) |-> statusPending],
         outputs |-> [i \in 1..Len(cmds) |-> EmptyStr],
         errors |-> [i \in 1..Len(cmds) |-> NoErr],
         spin |-> 0,
         downloaded |-> FALSE,
         showDetails |-> FALSE,
         summarizing |-> FALSE,
         summary |-> EmptyStr,
         summaryErr |-> NoErr,
         summaryNotice |-> EmptyStr,
         done |-> FALSE,
         summarizer |-> NewSummarizer(e),
         execSeconds |-> 0,
         requestScrollToBottom |-> FALSE,
         vp |-> [width |-> 0, height |-> 0, yOffset |-> 0]]

\* StartCommands with only the first command set running.
StartCommandsFirstOnly(mm, cmds) ==
    [mm EXCEPT !.commands = cmds,
               !.statuses = [i \in 1..Len(cmds) |->
                               IF i = 1 THEN statusRunning ELSE statusPending],
               !.outputs = [i \in 1..Len(cmds) |-> EmptyStr],
               !.errors = [i \in 1..Len(cmds) |-> NoErr]]

\* StartCommands with the arrays NewModel made kept as they are.
StartCommandsKeepingArrays(mm, cmds) == [mm EXCEPT !.commands = cmds]

\* Update(downloadMsg) when the download and the resolution succeeded: the
\* arrays are made anew and every command is set running.
StartCommands(mm, cmds) ==
    [mm EXCEPT !.commands = cmds,
               !.statuses = [i \in 1..Len(cmds) |-> statusRunning],
               !.outputs = [i \in 1..Len(cmds) |-> EmptyStr],
               !.errors = [i \in 1..Len(cmds) |-> NoErr]]

\* RecordResult with the message's index ignored: the first entry is written.
RecordResultFirstEntry(mm, msg) ==
    IF msg.err # NoErr
    THEN [mm EXCEPT !.statuses[1] = statusError, !.errors[1] = msg.err]
    ELSE [mm EXCEPT !.statuses[1] = statusSuccess, !.outputs[1] = msg.output]

\* RecordResult with a failure spreading to every entry.
RecordResultFailAll(mm, msg) ==
    IF msg.err # NoErr
    THEN [mm EXCEPT !.statuses = [i \in 1..Len(mm.statuses) |-> statusError],
                    !.errors = [i \in 1..Len(mm.errors) |-> msg.err]]
    ELSE [mm EXCEPT !.statuses[msg.index] = statusSuccess,
                    !.outputs[msg.index] = msg.output]

\* RecordResult with a failure's error recorded without the status.
RecordResultErrorOnly(mm, msg) ==
    IF msg.err # NoErr
    THEN [mm EXCEPT !.errors[msg.index] = msg.err]
    ELSE [mm EXCEPT !.statuses[msg.index] = statusSuccess,
                    !.outputs[msg.index] = msg.output]

\* Update(resultMsg), first part: the entry the message names is recorded.
RecordResult(mm, msg) ==
    IF msg.err # NoErr
    THEN [mm EXCEPT !.statuses[msg.index] = statusError,
                    !.errors[msg.index] = msg.err]
    ELSE [mm EXCEPT !.statuses[msg.index] = statusSuccess,
                    !.outputs[msg.index] = msg.output]

\* AllDone with the loop ended at the first finished command.
AllDoneAnyFinished(statuses) ==
    \E i \in 1..Len(statuses) :
        ~(statuses[i] = statusRunning \/ statuses[i] = statusPending)

\* AllDone with the running commands taken as finished.
AllDoneIgnoringRunning(statuses) ==
    \A i \in 1..Len(statuses) : statuses[i] # statusPending

\* AllDone with only the last command looked at.
AllDoneLastOnly(statuses) ==
    statuses = <<>> \/ statuses[Len(statuses)] \in {statusSuccess, statusError}

\* The check whether all commands are finished.
AllDone(statuses) ==
    \A i \in 1..Len(statuses) :
        ~(statuses[i] = statusRunning \/ statuses[i] = statusPending)

\* The guard of the summarization trigger.
MayTrigger(mm) == ~mm.summarizing /\ mm.summary = EmptyStr

\* SummaryCommands with the pairs of empty output left out.
SummaryCommandsNonEmpty(mm) ==
    SelectSeq([i \in 1..Len(mm.commands) |->
                  SummaryCommand(mm.commands[i].Spec, mm.outputs[i])],
              LAMBDA sc : sc.Output # EmptyStr)

\* The list handed to summarizeCmd: one pair per command, in order.
SummaryCommands(mm) ==
    [i \in 1..Len(mm.commands) |->
        SummaryCommand(mm.commands[i].Spec, mm.outputs[i])]

NoticeText == W("No API key provided; skipping AI summary.")

\* Update(resultMsg), second part, once all commands are finished and the
\* trigger's guard holds: the model after it, and whether summarizeCmd is
\* returned ("summarize"), the notice is set ("notice") or the playbook has no
\* system prompt ("noprompt").
Trigger(mm, t) ==
    LET timed == [mm EXCEPT !.execSeconds = 1, !.requestScrollToBottom = TRUE]
    IN  IF timed.summarizer.disabled
        THEN [m |-> [timed EXCEPT !.summaryNotice = NoticeText], what |-> "notice"]
        ELSE IF ~t.Playbook.loaded \/ t.Playbook.SystemPrompt = EmptyStr
        THEN [m |-> [timed EXCEPT !.summarizing = TRUE,
                                  !.summaryErr = "system_prompt is required in playbook"],
              what |-> "noprompt"]
        ELSE [m |-> [timed EXCEPT !.summarizing = TRUE], what |-> "summarize"]

\* Update(resultMsg).
OnResult(mm, t, msg) ==
    LET rec == RecordResult(mm, msg)
    IN  IF AllDone(rec.statuses) /\ MayTrigger(rec)
        THEN Trigger(rec, t)
        ELSE [m |-> rec, what |-> "none"]

\* OnLlm with a failed summarization marking every diagnostic as failed.
OnLlmFailingDiagnostics(mm, msg, renderOk) ==
    LET off == [mm EXCEPT !.summarizing = FALSE]
    IN  IF msg.err # NoErr
        THEN [off EXCEPT !.summaryErr = msg.err,
                         !.statuses = [i \in 1..Len(mm.statuses) |-> statusError],
                         !.errors = [i \in 1..Len(mm.errors) |-> msg.err]]
        ELSE IF ~renderOk THEN [off EXCEPT !.summaryErr = "render error"]
        ELSE [off EXCEPT !.summary = W("rendered:") \o msg.summary]

\* Update(llmMsg); glamour.Render succeeds or not.
OnLlm(mm, msg, renderOk) ==
    LET off == [mm EXCEPT !.summarizing = FALSE]
    IN  IF msg.err # NoErr THEN [off EXCEPT !.summaryErr = msg.err]
        ELSE IF ~renderOk THEN [off EXCEPT !.summaryErr = "render error"]
        ELSE [off EXCEPT !.summary = W("rendered:") \o msg.summary]

(***************************************************************************)
(* Init: main has built the Toolbox and the model; Init's commands (the    *)
(* download and the spinner tick) are started.                             *)
(***************************************************************************)
\* NewToolbox with the working directory's path set from the start.
NewToolboxWithDir == [TempDir |-> WorkDir, Playbook |-> NoPlaybook]

NewToolbox == [TempDir |-> NoDir, Playbook |-> NoPlaybook]

\* How many times a call of GetDiagnosticCommands on the Toolbox reads the
\* bundle: without a TempDir it returns before it reads anything.
ReadsBundle(t) == IF t.TempDir = NoDir THEN 0 ELSE 1

InitFrom(inputs, envs) ==
    /\ input \in inputs
    /\ env \in envs
    /\ fs = MkdirAllFS(EmptyFS, input.tmpdir).fs
    /\ tb = NewToolbox
    /\ dl = [pc |-> "mkdtemp", i |-> 1, tempDir |-> NoDir, err |-> NoErr]
    /\ m = NewModel(NewToolbox, EmptyFS, env)
    /\ ex = <<>>
    /\ llm = [pc |-> "idle", systemPrompt |-> EmptyStr, commands |-> <<>>,
              userContent |-> EmptyStr,
              result |-> [summary |-> EmptyStr, err |-> NoErr]]
    /\ main = [pc |-> "run", code |-> 0]
    /\ quit = FALSE
    /\ hist = [summarizeCalls |-> 0, notices |-> 0, noPrompt |-> 0,
               resolutions |-> ReadsBundle(NewToolbox), launched |-> <<>>, handled |-> <<>>,
               procs |-> 0, printed |-> <<>>,
               removals |-> 0, lateAccess |-> FALSE, writers |-> {}]

Init == InitFrom(Inputs, EnvChoices)

\* Goroutines run until the process has exited.
Alive == main.pc # "exit"

\* The event loop handles messages until Run returns.
Looping == main.pc = "run"

(***************************************************************************)
(* The download goroutine: downloadToolboxCmd, Toolbox.Download.           *)
(***************************************************************************)
\* os.MkdirTemp.
DlMkdirTemp ==
    /\ Alive /\ dl.pc = "mkdtemp"
    /\ IF input.temp
       THEN /\ fs' = MkdirFS(fs, Append(input.tmpdir, W("toolbox_1"))).fs
            /\ dl' = [dl EXCEPT !.pc = "store",
                                !.tempDir = Append(input.tmpdir, W("toolbox_1"))]
       ELSE /\ fs' = fs
            /\ dl' = [dl EXCEPT !.pc = "msg", !.err = "failed to create temp directory"]
    /\ UNCHANGED <<input, env, tb, m, ex, llm, main, quit, hist>>

\* t.TempDir = tempDir.
DlStore ==
    /\ Alive /\ dl.pc = "store"
    /\ tb' = [tb EXCEPT !.TempDir = dl.tempDir]
    /\ dl' = [dl EXCEPT !.pc = "open"]
    /\ hist' = [hist EXCEPT !.writers = @ \cup {<<"TempDir", "download">>}]
    /\ UNCHANGED <<input, env, fs, m, ex, llm, main, quit>>

\* os.Open or http.Get, the status check, xz.NewReader.
DlOpen ==
    /\ Alive /\ dl.pc = "open"
    /\ dl' = CASE input.source = "ok" -> [dl EXCEPT !.pc = "next"]
               [] input.source = "missing" ->
                      [dl EXCEPT !.pc = "msg", !.err = "failed to open or download file"]
               [] input.source = "badstatus" -> [dl EXCEPT !.pc = "msg", !.err = "bad status"]
               [] OTHER -> [dl EXCEPT !.pc = "msg", !.err = "failed to create XZ reader"]
    /\ UNCHANGED <<input, env, fs, tb, m, ex, llm, main, quit, hist>>

\* One round of the extraction loop: tarReader.Next and the entry.
DlNext ==
    /\ Alive /\ dl.pc = "next"
    /\ IF input.corruptAt = dl.i
       THEN /\ dl' = [dl EXCEPT !.pc = "msg", !.err = "failed to read tar header"]
            /\ fs' = fs
            /\ hist' = hist
       ELSE IF dl.i > Len(input.archive)
       THEN /\ dl' = [dl EXCEPT !.pc = "msg"]
            /\ fs' = fs
            /\ hist' = hist
       ELSE LET r == ExtractEntry(fs, dl.tempDir, input.archive[dl.i])
            IN  /\ fs' = r.fs
                /\ dl' = IF r.err = NoErr
                         THEN [dl EXCEPT !.i = dl.i + 1]
                         ELSE [dl EXCEPT !.pc = "msg", !.err = r.err]
                /\ hist' = [hist EXCEPT !.lateAccess = @ \/ hist.removals > 0]
    /\ UNCHANGED <<input, env, tb, m, ex, llm, main, quit>>

(***************************************************************************)
(* The event loop's handlers: model.Update.                                *)
(***************************************************************************)
\* DownloadFailed with the error ignored.
DownloadFailedNever(err) == FALSE

\* if msg.err != nil, for a downloadMsg.
DownloadFailed(err) == err # NoErr

\* case downloadMsg.
HandleDownloadMsg ==
    /\ Looping /\ dl.pc = "msg"
    /\ dl' = [dl EXCEPT !.pc = "handled"]
    /\ IF DownloadFailed(dl.err)
       THEN /\ m' = [m EXCEPT !.done = TRUE]
            /\ quit' = TRUE
            /\ hist' = [hist EXCEPT !.printed = Append(@, dl.err)]
            /\ UNCHANGED <<tb, ex>>
       ELSE LET r == GetDiagnosticCommands(tb, fs)
                resolved == [hist EXCEPT
                               !.resolutions = @ + ReadsBundle(tb),
                               !.writers = @ \cup (IF r.tb.Playbook.loaded
                                                   THEN {<<"Playbook", "loop">>} ELSE {})
                                             \cup (IF r.err = NoErr
                                                   THEN {<<"RunState", "loop">>} ELSE {})]
            IN  /\ tb' = r.tb
                /\ IF r.err # NoErr
                   THEN /\ m' = [m EXCEPT !.downloaded = TRUE, !.done = TRUE]
                        /\ quit' = TRUE
                        /\ hist' = [resolved EXCEPT !.printed = Append(@, r.err)]
                        /\ ex' = ex
                   ELSE /\ m' = StartCommands([m EXCEPT !.downloaded = TRUE], r.cmds)
                        /\ ex' = [i \in 1..Len(r.cmds) |->
                                    [pc |-> "running", cmd |-> r.cmds[i], index |-> i,
                                     res |-> ExecResult(EmptyStr, NoErr),
                                     proc |-> NoProc, ran |-> FALSE]]
                        /\ hist' = [resolved EXCEPT
                                      !.launched = @ \o [i \in 1..Len(r.cmds) |-> i]]
                        /\ quit' = quit
    /\ UNCHANGED <<input, env, fs, llm, main>>

\* case resultMsg, for the message of Executor k.
HandleResultMsg(k) ==
    /\ Looping /\ ex[k].pc = "msg"
    /\ LET msg == [index |-> ex[k].index, output |-> ex[k].res.output, err |-> ex[k].res.err]
           r   == OnResult(m, tb, msg)
       IN  /\ m' = r.m
           /\ llm' = IF r.what = "summarize"
                     THEN [llm EXCEPT !.pc = "running",
                                      !.systemPrompt = tb.Playbook.SystemPrompt,
                                      !.commands = SummaryCommands(r.m)]
                     ELSE llm
           /\ hist' = [hist EXCEPT
                         !.summarizeCalls = IF r.what = "summarize" THEN @ + 1 ELSE @,
                         !.notices = IF r.what = "notice" THEN @ + 1 ELSE @,
                         !.noPrompt = IF r.what = "noprompt" THEN @ + 1 ELSE @,
                         !.handled = Append(@, k),
                         !.writers = @ \cup {<<"RunState", "loop">>}]
    /\ ex' = [ex EXCEPT ![k].pc = "handled"]
    /\ UNCHANGED <<input, env, fs, tb, dl, main, quit>>

\* case llmMsg.
HandleLlmMsg ==
    /\ Looping /\ llm.pc = "msg"
    /\ \E renderOk \in BOOLEAN : m' = OnLlm(m, llm.result, renderOk)
    /\ llm' = [llm EXCEPT !.pc = "handled"]
    /\ UNCHANGED <<input, env, fs, tb, dl, ex, main, quit, hist>>

\* case spinner.TickMsg: the spinner moves on and asks for the next tick.
HandleTick ==
    /\ Looping
    /\ m' = [m EXCEPT !.spin = 1 - @]
    /\ UNCHANGED <<input, env, fs, tb, dl, ex, llm, main, quit, hist>>

\* case tea.KeyMsg "q", "ctrl+c", "esc": tea.Quit is returned.
HandleKeyQuit ==
    /\ Looping
    /\ quit' = TRUE
    /\ UNCHANGED <<input, env, fs, tb, dl, m, ex, llm, main, hist>>

\* HandleKeyTab with the summary, its error and the notice cleared as well.
HandleKeyTabClearingSummary ==
    /\ Looping
    /\ m' = [m EXCEPT !.showDetails = ~@, !.summary = EmptyStr,
                      !.summaryErr = NoErr, !.summaryNotice = EmptyStr]
    /\ UNCHANGED <<input, env, fs, tb, dl, ex, llm, main, quit, hist>>

\* case tea.KeyMsg "tab".
HandleKeyTab ==
    /\ Looping
    /\ m' = [m EXCEPT !.showDetails = ~@]
    /\ UNCHANGED <<input, env, fs, tb, dl, ex, llm, main, quit, hist>>

\* The terminal sizes a tea.WindowSizeMsg carries in the model: width and
\* height.
WindowSizes == {<<80, 24>>, <<40, 1>>}

\* case tea.WindowSizeMsg: the viewport gets the width, and the height less
\* one line if there is more than one.
HandleWindowSize ==
    /\ Looping
    /\ \E size \in WindowSizes :
          m' = [m EXCEPT !.vp.width = size[1],
                         !.vp.height = IF size[2] > 1 THEN size[2] - 1 ELSE size[2]]
    /\ UNCHANGED <<input, env, fs, tb, dl, ex, llm, main, quit, hist>>

\* case tea.KeyMsg for any other key: the viewport handles it and may
\* scroll to any line.
HandleKeyOther ==
    /\ Looping
    /\ \E y \in 0..MaxScroll : m' = [m EXCEPT !.vp.yOffset = y]
    /\ UNCHANGED <<input, env, fs, tb, dl, ex, llm, main, quit, hist>>

\* case tea.MouseMsg: the viewport handles it and may scroll to any line.
HandleMouse ==
    /\ Looping
    /\ \E y \in 0..MaxScroll : m' = [m EXCEPT !.vp.yOffset = y]
    /\ UNCHANGED <<input, env, fs, tb, dl, ex, llm, main, quit, hist>>

\* View: the content is set; a requested scroll to the bottom is done and
\* the request is taken back.
RenderView ==
    /\ Looping
    /\ m' = IF m.requestScrollToBottom
            THEN [m EXCEPT !.vp.yOffset = MaxScroll, !.requestScrollToBottom = FALSE]
            ELSE m
    /\ UNCHANGED <<input, env, fs, tb, dl, ex, llm, main, quit, hist>>

(***************************************************************************)
(* The worker goroutines: runCommandCmd and summarizeCmd.                  *)
(***************************************************************************)
\* runCommandCmd for command k, the child process doing one of `outcomes`.
ExecRunFrom(k, outcomes) ==
    /\ Alive /\ ex[k].pc = "running"
    /\ \E proc \in outcomes :
          LET r == ExecuteDiagnosticCommand(tb, ex[k].cmd, proc)
          IN  /\ ex' = [ex EXCEPT ![k].pc = "msg", ![k].res = r.res,
                                   ![k].proc = IF r.ran THEN proc ELSE NoProc,
                                   ![k].ran = r.ran]
              /\ hist' = [hist EXCEPT
                            !.procs = IF r.ran THEN @ + 1 ELSE @,
                            !.lateAccess = @ \/ (r.ran /\ hist.removals > 0)]
    /\ UNCHANGED <<input, env, fs, tb, dl, m, llm, main, quit>>

ExecRun(k) == ExecRunFrom(k, ProcOutcomes)

\* runCommandCmd for a child process that exits with status zero, with outputs
\* around the number of lines that is kept.
ExecRunLong(k) == ExecRunFrom(k, LongProcOutcomes)

\* summarizeCmd: Summarize builds the text of the user message, sends it and
\* returns the answer or an error.
LlmRun ==
    /\ Alive /\ llm.pc = "running"
    /\ \E out \in LlmOutcomes :
          llm' = [llm EXCEPT !.pc = "msg", !.result = out,
                             !.userContent = UserContent(llm.commands, tb.Playbook.Commands)]
    /\ UNCHANGED <<input, env, fs, tb, dl, m, ex, main, quit, hist>>

(***************************************************************************)
(* The main goroutine: p.Run, the deferred tb.Cleanup, the exit.           *)
(***************************************************************************)
\* The QuitMsg reaches the event loop: Run returns without an error.
RunReturns ==
    /\ Looping /\ quit
    /\ main' = [main EXCEPT !.pc = "cleanup"]
    /\ UNCHANGED <<input, env, fs, tb, dl, m, ex, llm, quit, hist>>

\* Run returns an error (the program is interrupted or killed): log.Fatalf
\* ends the process with status 1; deferred calls do not run.
RunFails ==
    /\ Looping
    /\ main' = [pc |-> "exit", code |-> 1]
    /\ UNCHANGED <<input, env, fs, tb, dl, m, ex, llm, quit, hist>>

\* Toolbox.Cleanup up to os.RemoveAll; with no TempDir it returns at once and
\* main returns.
CleanupRemove ==
    /\ main.pc = "cleanup"
    /\ IF tb.TempDir = NoDir
       THEN /\ main' = [pc |-> "exit", code |-> 0]
            /\ fs' = fs
            /\ hist' = hist
       ELSE /\ fs' = RemoveAllFS(fs, tb.TempDir)
            /\ main' = [main EXCEPT !.pc = "removed"]
            /\ hist' = [hist EXCEPT !.removals = @ + 1]
    /\ UNCHANGED <<input, env, tb, dl, m, ex, llm, quit>>

\* Toolbox.Cleanup clears the path and returns; main returns.
CleanupClear ==
    /\ main.pc = "removed"
    /\ tb' = [tb EXCEPT !.TempDir = NoDir]
    /\ main' = [pc |-> "exit", code |-> 0]
    /\ hist' = [hist EXCEPT !.writers = @ \cup {<<"TempDir", "main">>}]
    /\ UNCHANGED <<input, env, fs, dl, m, ex, llm, quit>>

Next ==
    \/ DlMkdirTemp
    \/ DlStore
    \/ DlOpen
    \/ DlNext
    \/ HandleDownloadMsg
    \/ \E k \in 1..Len(ex) : HandleResultMsg(k)
    \/ HandleLlmMsg
    \/ HandleTick
    \/ HandleKeyQuit
    \/ HandleKeyTab
    \/ \E k \in 1..Len(ex) : ExecRun(k)
    \/ LlmRun
    \/ RunReturns
    \/ RunFails
    \/ CleanupRemove
    \/ CleanupClear

Spec == Init /\ [][Next]_vars

(***************************************************************************)
(* The unattended run: no key is pressed and Run is not interrupted; the   *)
(* store has two packages and the commands print up to one line more than  *)
(* is kept.                                                                *)
(***************************************************************************)
InitUnattended == InitFrom(UnattendedInputs, {Env(W("ant-key"), EmptyStr, EmptyStr, EmptyStr, EmptyStr)})

NextUnattended ==
    \/ DlMkdirTemp
    \/ DlStore
    \/ DlOpen
    \/ DlNext
    \/ HandleDownloadMsg
    \/ \E k \in 1..Len(ex) : ExecRunLong(k)
    \/ \E k \in 1..Len(ex) : HandleResultMsg(k)
    \/ LlmRun
    \/ HandleLlmMsg

SpecUnattended == InitUnattended /\ [][NextUnattended]_vars

(***************************************************************************)
(* Runs over bundles: archives with the layouts a package store can have,  *)
(* with paths named twice and with symbolic links, and manifests with the  *)
(* timeouts an int can hold.  No key is pressed and no API key is found.   *)
(***************************************************************************)
InitBundles == InitFrom(BundleInputs, {Env(EmptyStr, EmptyStr, EmptyStr, EmptyStr, EmptyStr)})

\* runCommandCmd for a child process that may also fail to start.
ExecRunOrNot(k) == ExecRunFrom(k, ProcOutcomes \cup {StartFailure})

NextBundles ==
    \/ DlMkdirTemp
    \/ DlStore
    \/ DlOpen
    \/ DlNext
    \/ HandleDownloadMsg
    \/ \E k \in 1..Len(ex) : ExecRunOrNot(k)
    \/ \E k \in 1..Len(ex) : HandleResultMsg(k)

SpecBundles == InitBundles /\ [][NextBundles]_vars

(***************************************************************************)
(* Calls of the Toolbox's methods: ExecuteDiagnosticCommand on commands    *)
(* and Toolboxes of any kind (the commands are given to runCommandCmd as   *)
(* Update does it, whether or not a resolution can have produced them);    *)
(* and, in a second specification, Cleanup as well, which may fail to      *)
(* remove the directory, at any time and any number of times.              *)
(***************************************************************************)
\* Commands with an empty invocation string, one of white space only, and
\* one with a binary and an argument.
DirectCommands ==
    { DiagnosticCommand(c, W("direct"), 1, Seconds(DefaultTimeout)) :
        c \in {EmptyStr, W(" "), <<"\t", "\n">>, <<"proot", " ", "ls">>} }

\* A Toolbox without a working directory, and one with it.
DirectToolboxes == {NewToolbox, [NewToolbox EXCEPT !.TempDir = WorkDir]}

InitExecutorCalls ==
    /\ input = Input(TRUE, "ok", <<>>, 0)
    /\ env = Env(EmptyStr, EmptyStr, EmptyStr, EmptyStr, EmptyStr)
    /\ tb \in DirectToolboxes
    /\ fs = IF tb.TempDir = NoDir THEN EmptyFS ELSE MkdirFS(EmptyFS, WorkDir).fs
    /\ dl = [pc |-> "handled", i |-> 1, tempDir |-> tb.TempDir, err |-> NoErr]
    /\ \E cmds \in UNION {[1..n -> DirectCommands] : n \in 1..MaxDiag} :
          /\ m = StartCommands([NewModel(NewToolbox, EmptyFS, env) EXCEPT !.downloaded = TRUE],
                               cmds)
          /\ ex = [i \in 1..Len(cmds) |->
                     [pc |-> "running", cmd |-> cmds[i], index |-> i,
                      res |-> ExecResult(EmptyStr, NoErr),
                      proc |-> NoProc, ran |-> FALSE]]
          /\ hist = [summarizeCalls |-> 0, notices |-> 0, noPrompt |-> 0,
                     resolutions |-> 0, launched |-> [i \in 1..Len(cmds) |-> i],
                     handled |-> <<>>, procs |-> 0, printed |-> <<>>,
                     removals |-> 0, lateAccess |-> FALSE, writers |-> {}]
    /\ llm = [pc |-> "idle", systemPrompt |-> EmptyStr, commands |-> <<>>,
              userContent |-> EmptyStr,
              result |-> [summary |-> EmptyStr, err |-> NoErr]]
    /\ main = [pc |-> "run", code |-> 0]
    /\ quit = FALSE

\* A call of Toolbox.Cleanup; os.RemoveAll succeeds or fails.
CallCleanup ==
    /\ \E removeOk \in BOOLEAN :
          LET r == Cleanup(tb, fs, removeOk)
          IN  /\ tb' = r.tb
              /\ fs' = r.fs
              /\ hist' = [hist EXCEPT !.removals = IF r.tb # tb THEN @ + 1 ELSE @]
    /\ UNCHANGED <<input, env, dl, m, ex, llm, main, quit>>

NextExecutorCalls ==
    \/ \E k \in 1..Len(ex) : ExecRun(k)
    \/ \E k \in 1..Len(ex) : HandleResultMsg(k)

SpecExecutorCalls == InitExecutorCalls /\ [][NextExecutorCalls]_vars

\* The calls of the Executor together with calls of Cleanup.
NextToolboxCalls ==
    \/ \E k \in 1..Len(ex) : ExecRun(k)
    \/ \E k \in 1..Len(ex) : HandleResultMsg(k)
    \/ CallCleanup

SpecToolboxCalls == InitExecutorCalls /\ [][NextToolboxCalls]_vars

(***************************************************************************)
(* Runs with the directory for temporary files (TMPDIR) at its default and *)
(* at a path with a space in it.  No key is pressed and no API key is      *)
(* found.                                                                  *)
(***************************************************************************)
\* The directories os.MkdirTemp("", ...) creates its directory in: /tmp and
\* "/tmp/my dir".
TempDirs == {TempRoot, <<W("tmp"), <<"my", " ", "dir">>>>}

InitTempDirs ==
    InitFrom({[Input(TRUE, "ok", TwoPackageArchive(y), 0) EXCEPT !.tmpdir = d] :
                 d \in TempDirs, y \in UnattendedYamlChoices},
             {Env(EmptyStr, EmptyStr, EmptyStr, EmptyStr, EmptyStr)})

SpecTempDirs == InitTempDirs /\ [][NextBundles]_vars

(***************************************************************************)
(* Runs in the environments a user can have: every API key unset, of white *)
(* space only or set, with and without a base URL and the embedded key.    *)
(* The bundle has two diagnostics; a command may also print white space    *)
(* only.  No key is pressed.                                               *)
(***************************************************************************)
\* The values of an API key: unset, white space only, set.
KeyChoices == {EmptyStr, W(" "), W("key")}

ProviderEnvs ==
    { Env(a, r, o, b, f) :
        a \in KeyChoices, r \in KeyChoices,
        o \in KeyChoices \cup {<<"sk-or-v1-", "key">>},
        b \in {EmptyStr, W("http://base")}, f \in {EmptyStr, W("fk-key")} }

InitProviders == InitFrom({Input(TRUE, "ok", ToolboxArchive(<<1, 1, 1>>), 0)}, ProviderEnvs)

\* runCommandCmd for a child process that may also print an empty line only.
ExecRunBlank(k) ==
    ExecRunFrom(k, ProcOutcomes \cup {[failed |-> FALSE, deadline |-> FALSE,
                                       output |-> <<"\n">>, err |-> "nil"]})

NextProviders ==
    \/ DlMkdirTemp
    \/ DlStore
    \/ DlOpen
    \/ DlNext
    \/ HandleDownloadMsg
    \/ \E k \in 1..Len(ex) : ExecRunBlank(k)
    \/ \E k \in 1..Len(ex) : HandleResultMsg(k)
    \/ LlmRun
    \/ HandleLlmMsg

SpecProviders == InitProviders /\ [][NextProviders]_vars

(***************************************************************************)
(* Runs of a bundle with one diagnostic or none, with and without a system *)
(* prompt and an API key, in which the terminal sends every kind of        *)
(* message: the spinner ticks, keys are pressed, the mouse is used, the    *)
(* window is resized and the view is drawn.                                *)
(***************************************************************************)
InitMessages ==
    InitFrom({Input(TRUE, "ok", ToolboxArchive(y), 0) : y \in {<<1, 1>>, <<0, 1>>, <<1>>}},
             EnvChoices)

NextMessages ==
    \/ DlMkdirTemp
    \/ DlStore
    \/ DlOpen
    \/ DlNext
    \/ HandleDownloadMsg
    \/ \E k \in 1..Len(ex) : ExecRun(k)
    \/ \E k \in 1..Len(ex) : HandleResultMsg(k)
    \/ LlmRun
    \/ HandleLlmMsg
    \/ HandleTick
    \/ HandleKeyTab
    \/ HandleKeyOther
    \/ HandleMouse
    \/ HandleWindowSize
    \/ RenderView
    \/ HandleKeyQuit
    \/ RunReturns

SpecMessages == InitMessages /\ [][NextMessages]_vars

(***************************************************************************)
(* Properties.                                                             *)
(***************************************************************************)
\* How often the summarization trigger (the branch guarded by allDone and
\* the trigger's guard) has fired: summarizeCmd returned, the skip notice
\* set, or the missing system prompt reported.
TriggerCount == hist.summarizeCalls + hist.notices + hist.noPrompt

\* Every RunState entry is Succeeded or Failed.
AllTerminal(statuses) == \A i \in 1..Len(statuses) : statuses[i] \in Terminal

\* The results were handled in an order other than the manifest's.
OutOfOrder == \E i, j \in 1..Len(hist.handled) : i < j /\ hist.handled[i] > hist.handled[j]

\* C1: in every run, for every number of diagnostics and every completion
\* order of their results, the summarization trigger (invoking the
\* summarizer or recording the skip notice) fires at most once.
C1_TriggerAtMostOnce ==
    /\ TriggerCount <= 1
    /\ hist.summarizeCalls + hist.notices <= 1

\* C1's case: the trigger has fired in a run of several diagnostics whose
\* results arrived out of manifest order.
C1_Witness ==
    /\ Len(m.statuses) >= 2
    /\ OutOfOrder
    /\ Len(hist.handled) = Len(m.statuses)
    /\ hist.summarizeCalls + hist.notices = 1

\* C2: the summarization trigger never fires while a diagnostic is still
\* Pending or Running: in the step in which it fires, every RunState entry
\* is Succeeded or Failed after the update, and every launched Executor's
\* result has been handled.
C2_TriggerOnlyWhenAllTerminal ==
    [][ (TriggerCount' > TriggerCount) =>
            /\ AllTerminal(m'.statuses)
            /\ Len(m'.statuses) = Len(m'.commands)
            /\ \A k \in 1..Len(ex') : ex'[k].pc = "handled" ]_vars

\* C2's case: the trigger has fired after results that arrived out of
\* manifest order, one of them a failure.
C2_Witness ==
    /\ TriggerCount = 1
    /\ OutOfOrder
    /\ \E i \in 1..Len(m.statuses) : m.statuses[i] = statusError
    /\ \E i \in 1..Len(m.statuses) : m.statuses[i] = statusSuccess

\* Nothing more can arrive: the bundle is resolved, no quit is under way,
\* every Executor's result and the summary result (if one was asked for)
\* have been handled.
Quiescent ==
    /\ Looping /\ ~quit
    /\ dl.pc = "handled" /\ m.downloaded
    /\ \A k \in 1..Len(ex) : ex[k].pc = "handled"
    /\ llm.pc \notin {"running", "msg"}

\* Done: every diagnostic of the manifest is terminal and no summarization is
\* shown as in progress.
DoneState ==
    /\ Len(m.statuses) = Len(tb.Playbook.Commands)
    /\ AllTerminal(m.statuses)
    /\ ~m.summarizing

\* C3: for every manifest (also one with zero diagnostics and one without a
\* summarization instruction), once the bundle is resolved and every Executor
\* and the summarization call have returned and their messages are handled,
\* the Orchestrator is in Done; and while summarization is shown as in
\* progress a summary result is still to come.
C3_ReachesDone ==
    /\ Quiescent => DoneState
    /\ m.summarizing => llm.pc \in {"running", "msg"}

\* The summarizer has credentials.
HasCredentials == ~m.summarizer.disabled

\* A result message has made the all-complete predicate true.
BecameAllDone == Len(m.statuses) > 0 /\ AllDone(m.statuses)

\* The summarization collaborator was invoked exactly once, with the system
\* prompt and one (spec, output) pair per diagnostic in manifest order.
InvokedOnceWithAllPairs ==
    /\ hist.summarizeCalls = 1
    /\ llm.pc # "idle"
    /\ llm.systemPrompt = tb.Playbook.SystemPrompt
    /\ Len(llm.commands) = Len(tb.Playbook.Commands)
    /\ \A i \in 1..Len(llm.commands) :
          /\ llm.commands[i].Description = i
          /\ llm.commands[i].Output = m.outputs[i]

Rank(st) == CASE st = statusPending -> 0 [] st = statusRunning -> 1 [] OTHER -> 2

\* C5: each RunState entry only moves forward along Pending -> Running ->
\* {Succeeded | Failed}: a terminal entry keeps its status, output and error,
\* no entry goes back or disappears, and no diagnostic is launched twice.
C5_MonotoneRunState ==
    [][ /\ \A i \in 1..Len(m.statuses) :
              /\ i <= Len(m'.statuses)
              /\ Rank(m'.statuses[i]) >= Rank(m.statuses[i])
              /\ m.statuses[i] \in Terminal =>
                    /\ m'.statuses[i] = m.statuses[i]
                    /\ m'.outputs[i] = m.outputs[i]
                    /\ m'.errors[i] = m.errors[i]
        /\ \A i, j \in 1..Len(hist'.launched) :
              i # j => hist'.launched[i] # hist'.launched[j] ]_vars

\* C5's case: a result was handled after another entry had become terminal,
\* one Succeeded and one Failed.
C5_Witness ==
    /\ Len(hist.handled) >= 2
    /\ \E i, j \in 1..Len(m.statuses) :
          m.statuses[i] = statusSuccess /\ m.statuses[j] = statusError

\* C6: if no API key is set, the summarization collaborator is never
\* invoked, and once every diagnostic is terminal the skip notice is recorded
\* and no summarization is in progress.
C6_NoKeySkipsSummary ==
    NoApiKeySet(env) =>
        /\ hist.summarizeCalls = 0
        /\ BecameAllDone => (m.summaryNotice # EmptyStr /\ ~m.summarizing)

\* The name has a traversal segment.
HasTraversal(name) == \E i \in 1..Len(Segments(name)) : Segments(name)[i] = DotDot

\* The path is inside the working directory, or was there before the run.
Contained(p) == p \in DOMAIN EmptyFS \/ IsPrefix(WorkDir, p)

\* C7: an archive entry whose name has traversal segments makes extraction
\* fail before anything is created for it: no such entry is ever extracted
\* and nothing exists outside the working directory.
C7_TraversalRejected ==
    /\ \A p \in DOMAIN fs : Contained(p)
    /\ \A j \in 1..(dl.i - 1) : ~HasTraversal(input.archive[j].Name)

\* C8: if fetch or extraction fails, no command is resolved, no Executor is
\* launched, no RunState entry is created and the trigger never fires; once
\* the failure is handled the error is printed and the program is quitting.
C8_FailedDownloadStopsAll ==
    dl.err # NoErr =>
        /\ hist.resolutions = 0
        /\ ex = <<>> /\ hist.launched = <<>> /\ hist.procs = 0
        /\ m.commands = <<>> /\ m.statuses = <<>>
        /\ TriggerCount = 0 /\ llm.pc = "idle"
        /\ dl.pc = "handled" => (m.done /\ quit /\ hist.printed = <<dl.err>>)

\* C8's case: extraction failed after some entries were extracted, the
\* failure was handled and the process has ended.
C8_Witness ==
    /\ dl.err # NoErr /\ dl.i > 1
    /\ dl.pc = "handled"
    /\ main.pc = "exit"

\* Download failed in fetching the archive or in extracting it.
FetchOrExtractFailed == dl.err \notin {NoErr, "failed to create temp directory"}

\* C9: when fetch or extraction fails, the process ends with a non-zero
\* exit status after the error is reported.
C9_FailureExitsNonZero ==
    (main.pc = "exit" /\ dl.pc = "handled" /\ FetchOrExtractFailed) =>
        (main.code # 0 /\ hist.printed = <<dl.err>>)

\* The archive holds an executable regular file bin/<name> or sbin/<name> in
\* a package directory of the store.
Provided(archive, binName) ==
    \E j \in 1..Len(archive), k \in 1..Len(SortedNames), d \in {"bin", "sbin"} :
        /\ archive[j].Typeflag = "reg"
        /\ HasExecBit(archive[j].Mode)
        /\ Segments(archive[j].Name) =
              <<W("toolbox"), W("nix"), W("store"), SortedNames[k], W(d)>> \o Segments(binName)

\* The diagnostic cannot be resolved: no tokens, or a binary in no store entry.
Unresolvable(c) ==
    \/ Fields(c.Command) = <<>>
    \/ ~Provided(input.archive, Fields(c.Command)[1])

\* C10: if any diagnostic of the manifest cannot be resolved, resolution
\* fails as a whole: no Executor is ever launched and no child process is
\* started for any diagnostic of the manifest, and the program is quitting.
C10_UnresolvableStopsAll ==
    (tb.Playbook.loaded /\ \E i \in 1..Len(tb.Playbook.Commands) :
                              Unresolvable(tb.Playbook.Commands[i])) =>
        /\ ex = <<>> /\ hist.launched = <<>> /\ hist.procs = 0
        /\ m.commands = <<>> /\ m.statuses = <<>>
        /\ m.done /\ quit /\ Len(hist.printed) = 1

\* C10's case: the manifest lists a resolvable diagnostic before one that
\* cannot be resolved, and the download message was handled.
C10_Witness ==
    /\ tb.Playbook.loaded /\ dl.pc = "handled"
    /\ Len(tb.Playbook.Commands) = 2
    /\ ~Unresolvable(tb.Playbook.Commands[1])
    /\ Unresolvable(tb.Playbook.Commands[2])

\* Entry i of the model's three per-command arrays.
Entry(mm, i) == <<mm.statuses[i], mm.outputs[i], mm.errors[i]>>

\* All results are handled, the diagnostics are all terminal and the
\* summarization trigger has fired.
RunCompleted ==
    /\ Len(m.statuses) = Len(tb.Playbook.Commands)
    /\ AllTerminal(m.statuses)
    /\ TriggerCount = 1

\* C11: an execution failure of diagnostic i is local to i.  Handling its
\* result sets entry i to Failed with the error and keeps its output, leaves
\* every other entry and every other Executor as it was; and once every
\* Executor's result is handled, all diagnostics are terminal and the trigger
\* has fired, whatever failed.
C11_FailureIsLocal ==
    [][ /\ \A k \in 1..Len(ex) :
              (ex[k].pc = "msg" /\ ex'[k].pc = "handled" /\ ex[k].res.err # NoErr) =>
                  /\ Len(m'.statuses) = Len(m.statuses)
                  /\ Entry(m', ex[k].index) =
                        <<statusError, m.outputs[ex[k].index], ex[k].res.err>>
                  /\ \A j \in 1..Len(m.statuses) :
                        j # ex[k].index => Entry(m', j) = Entry(m, j)
                  /\ \A j \in 1..Len(ex) : j # k => ex'[j] = ex[j]
        /\ (Quiescent' /\ Len(ex') > 0) => RunCompleted' ]_vars

\* C11's case: the first result handled was a failure while the other
\* diagnostic was still to be handled; the other one then succeeded with its
\* output, and the run completed.
C11_Witness ==
    /\ Len(hist.handled) = 2
    /\ m.statuses[ex[hist.handled[1]].index] = statusError
    /\ m.statuses[ex[hist.handled[2]].index] = statusSuccess
    /\ m.outputs[ex[hist.handled[2]].index] # EmptyStr
    /\ Quiescent /\ RunCompleted

\* The child process of Executor k was killed at the expiry of its deadline.
TimedOut(e) == e.ran /\ e.proc.deadline /\ e.proc.failed

\* C12: if a diagnostic's child process is still running when its timeout
\* expires, the Executor returns a non-error result with the output emitted
\* before expiry, the Orchestrator records the diagnostic as Succeeded with
\* that output, and the step in which the Executor returns changes no other
\* Executor.
C12_TimeoutIsSuccess ==
    [][ \A k \in 1..Len(ex') :
            /\ (TimedOut(ex'[k]) /\ ex'[k].pc # "running") =>
                  /\ ex'[k].res = ExecResult(ex'[k].proc.output, NoErr)
                  /\ ex'[k].pc = "handled" =>
                        Entry(m', ex'[k].index) =
                            <<statusSuccess, ex'[k].proc.output, NoErr>>
            /\ (k <= Len(ex) /\ ex[k].pc = "running" /\ ex'[k].pc = "msg") =>
                  \A j \in 1..Len(ex) : j # k => ex'[j] = ex[j] ]_vars

\* C12's case: one diagnostic timed out and is recorded, while another
\* Executor's child is still running.
C12_Witness ==
    \E k, j \in 1..Len(ex) :
        /\ TimedOut(ex[k]) /\ ex[k].pc = "handled"
        /\ m.statuses[ex[k].index] = statusSuccess
        /\ m.outputs[ex[k].index] # EmptyStr
        /\ ex[j].pc = "running"

\* The lines of a text: its parts between newlines, a final newline ending
\* the last line.
LinesOf(text) ==
    LET parts == Split(text, "\n")
    IN  IF parts[Len(parts)] = <<>> THEN SubSeq(parts, 1, Len(parts) - 1) ELSE parts

\* The last n elements of a sequence (all of them if there are fewer).
LastN(seq, n) == IF Len(seq) > n THEN SubSeq(seq, Len(seq) - n + 1, Len(seq)) ELSE seq

\* The child process of Executor k has exited with status zero in time.
ExitedZero(e) == e.ran /\ ~e.proc.failed /\ ~e.proc.deadline

\* C13: the captured result of a command that exits with status zero holds
\* exactly the last 100 lines of its output when the output has more than
\* 100 lines, and all its lines otherwise.
C13_LastHundredLines ==
    \A k \in 1..Len(ex) :
        (ExitedZero(ex[k]) /\ ex[k].pc # "running") =>
            LinesOf(ex[k].res.output) = LastN(LinesOf(ex[k].proc.output), MaxLines)

\* The text without its final newline, if it ends with one.
TrimFinalNewline(text) ==
    IF text # <<>> /\ text[Len(text)] = "\n" THEN SubSeq(text, 1, Len(text) - 1) ELSE text

\* C14: a diagnostic whose process exits with status zero within its timeout
\* ends as Succeeded, and its recorded output is the text it printed without
\* the trailing line terminator.
C14_OutputWithoutTerminator ==
    \A k \in 1..Len(ex) :
        (ExitedZero(ex[k]) /\ ex[k].pc = "handled") =>
            /\ m.statuses[ex[k].index] = statusSuccess
            /\ m.outputs[ex[k].index] = TrimFinalNewline(ex[k].proc.output)

\* Something of the working directory exists.
WorkDirExists == \E p \in DOMAIN fs : IsPrefix(WorkDir, p)

\* The teardown is over: Run has returned, Cleanup has run and main has
\* returned.
TornDown == main.pc = "exit" /\ main.code = 0

\* C15: the working directory is removed exactly once, during teardown, and
\* after its removal neither the download task nor an Executor accesses it:
\* it is never removed twice, nothing touches it after the removal, and after
\* the teardown of a run that created it, it was removed and does not exist.
C15_RemovedOnceNoLateAccess ==
    /\ hist.removals <= 1
    /\ ~hist.lateAccess
    /\ (TornDown /\ dl.tempDir # NoDir) => (hist.removals = 1 /\ ~WorkDirExists)

\* The tasks that run beside the event loop and the main goroutine.
Workers == {"download", "executor", "summarizer"}

\* C16: no worker task writes RunState or a Toolbox field, and each of them
\* has exactly one writer.
C16_SingleWriter ==
    /\ \A w \in hist.writers : w[2] \notin Workers
    /\ \A v, w \in hist.writers : v[1] = w[1] => v[2] = w[2]

\* C17: if Download fails after the working directory was created and the
\* failure is delivered to the event loop, then after the teardown the
\* working directory, with what was extracted so far, has been removed.
C17_FailedDownloadCleanedUp ==
    (TornDown /\ dl.pc = "handled" /\ dl.err # NoErr /\ dl.tempDir # NoDir) =>
        (hist.removals = 1 /\ ~WorkDirExists /\ tb.TempDir = NoDir)

\* C17's case: extraction failed after some entries had been written, and
\* the teardown is over.
C17_Witness ==
    /\ TornDown /\ dl.pc = "handled"
    /\ dl.err \in {"unsupported file type", "failed to read tar header"}
    /\ dl.i > 2
    /\ hist.removals = 1

\* Done without the error exit: the bundle was resolved and the trigger has
\* fired, or the manifest has no diagnostics.
OrchestratorDone ==
    /\ dl.pc = "handled" /\ m.downloaded /\ ~m.done
    /\ TriggerCount >= 1 \/ tb.Playbook.Commands = <<>>

\* C18: whenever the Orchestrator is in Done, RunState has exactly one entry
\* per diagnostic of the manifest and all of them are Succeeded or Failed.
C18_DoneHasNTerminalEntries ==
    OrchestratorDone =>
        /\ Len(m.statuses) = Len(tb.Playbook.Commands)
        /\ Len(m.commands) = Len(tb.Playbook.Commands)
        /\ AllTerminal(m.statuses)

\* C18's case: Done for a manifest of two diagnostics with the summary
\* delivered.
C18_Witness ==
    /\ OrchestratorDone
    /\ Len(tb.Playbook.Commands) = 2
    /\ m.summary # EmptyStr /\ ~m.summarizing

\* The archive is what the generator makes on darwin from a playbook with at
\* least one command.
DarwinArchive ==
    \E y \in YamlChoices \cup UnattendedYamlChoices :
        Len(y) >= 2 /\ input.archive = GenerateToolbox("darwin", y)

\* C19: with a toolbox archive made by the generator on darwin from a
\* playbook with at least one command, every command is resolved and the
\* diagnostics are run: the run does not abort at resolution.
C19_DarwinArchiveResolves ==
    (DarwinArchive /\ dl.pc = "handled") =>
        /\ ~m.done /\ hist.printed = <<>>
        /\ Len(m.commands) = Len(tb.Playbook.Commands)
        /\ Len(ex) = Len(tb.Playbook.Commands)

\* The resolution has succeeded.
Resolved == dl.pc = "handled" /\ m.downloaded /\ ~m.done

\* C20: on successful resolution the result has one command per diagnostic
\* of the manifest, in manifest order: entry i points to command i of the
\* manifest, carries its description and timeout, and its invocation is the
\* proot prefix, the binary found for command i's first token, and command
\* i's further tokens.
C20_OnePerSpecInOrder ==
    Resolved =>
        /\ Len(m.commands) = Len(tb.Playbook.Commands)
        /\ \A i \in 1..Len(m.commands) :
              LET c == tb.Playbook.Commands[i]
                  r == m.commands[i]
                  f == Fields(r.Command)
                  p == Fields(c.Command)
              IN  /\ r.Spec = i
                  /\ r.Display = c.Description
                  /\ r.Timeout = EffectiveTimeout(c)
                  /\ Len(f) = 3 + Len(p)
                  /\ SubSeq(f, 5, Len(f)) = Tail(p)
                  /\ f[4][Len(f[4])] = p[1][Len(p[1])]

\* C20's case: two different diagnostics were resolved, the second one found
\* in the second package of the store.
C20_Witness ==
    /\ Resolved
    /\ Len(m.commands) = 2
    /\ tb.Playbook.Commands[1] # tb.Playbook.Commands[2]
    /\ tb.Playbook.Commands[2] = CmdChoices[4]

\* The number of nanoseconds in the given number of seconds, as the integer it
\* is: twelve bytes hold the product of a 64-bit value and time.Second.
ExactSeconds(secs) == MulBytes(secs, Second, 12)

\* The 64-bit value as the integer it is, for a value that is not negative.
Exact(x) == x \o <<0, 0, 0, 0>>

\* C21: the effective timeout of every resolved command is timeout_seconds
\* seconds when that number is positive and the five-second default when it
\* is zero or negative; it is strictly positive, so the Executor never falls
\* back to its own thirty seconds.
C21_EffectiveTimeout ==
    \A k \in 1..Len(ex) :
        LET c == tb.Playbook.Commands[ex[k].index]
            t == ex[k].cmd.Timeout
        IN  /\ IsPositive64(t)
            /\ Exact(t) = IF IsPositive64(c.TimeoutSeconds)
                          THEN ExactSeconds(c.TimeoutSeconds)
                          ELSE ExactSeconds(I64(DefaultTimeout))
            /\ ExecTimeout(ex[k].cmd) = t

\* The package store of the working directory.
StoreOf(dir) == dir \o <<W("toolbox"), W("nix"), W("store")>>

\* The file <sub>/<name> of the k-th store entry, sub being bin or sbin.
CandidateAt(k, sub, name) == StoreOf(WorkDir) \o <<SortedNames[k], W(sub), name>>

\* The k-th store entry is a directory and holds <sub>/<name>, which is not a
\* directory and has an execute bit.
Provides(k, sub, name) ==
    /\ Append(StoreOf(WorkDir), SortedNames[k]) \in DOMAIN fs
    /\ fs[Append(StoreOf(WorkDir), SortedNames[k])].kind = "dir"
    /\ Exists(fs, CandidateAt(k, sub, name))
    /\ StatNode(fs, CandidateAt(k, sub, name)).kind # "dir"
    /\ HasExecBit(StatNode(fs, CandidateAt(k, sub, name)).mode)

\* <<k, sub>> is the first place of the store that provides the name: no
\* earlier store entry provides it, and bin comes before sbin.
FirstProvider(k, sub, name) ==
    /\ Provides(k, sub, name)
    /\ \A j \in 1..(k - 1) : ~Provides(j, "bin", name) /\ ~Provides(j, "sbin", name)
    /\ sub = "sbin" => ~Provides(k, "bin", name)

\* The extracted bundle is in place: the download has been handled without an
\* error and the working directory has not been removed.
BundleInPlace == dl.pc = "handled" /\ dl.err = NoErr /\ main.pc = "run"

\* C22: the binary a resolved command names is bin/<name> or sbin/<name> of
\* the first store entry in listing order that is a directory and holds such a
\* file that is not a directory and has an execute bit, bin before sbin; if no
\* store entry has one, nothing is resolved.
C22_FirstStoreEntryWins ==
    (BundleInPlace /\ tb.Playbook.loaded) =>
        /\ \A i \in 1..Len(ex) :
              LET parts == Fields(tb.Playbook.Commands[ex[i].index].Command)
              IN  \E k \in 1..Len(SortedNames), sub \in {"bin", "sbin"} :
                     /\ FirstProvider(k, sub, parts[1])
                     /\ ex[i].cmd.Command =
                            CommandString(WorkDir, CandidateAt(k, sub, parts[1]), Tail(parts))
        /\ (ex = <<>> /\ tb.Playbook.Commands # <<>>) =>
              \E c \in 1..Len(tb.Playbook.Commands) :
                 LET parts == Fields(tb.Playbook.Commands[c].Command)
                 IN  parts = <<>> \/ \A k \in 1..Len(SortedNames), sub \in {"bin", "sbin"} :
                                        ~Provides(k, sub, parts[1])

\* The first store entry has a bin/ls without execute bits and an sbin/ls
\* with one, the second an executable bin/ls: the resolved binary is the first
\* entry's sbin/ls.
C22_Witness ==
    /\ BundleInPlace
    /\ Len(ex) = 1
    /\ Exists(fs, CandidateAt(1, "bin", W("ls")))
    /\ ~Provides(1, "bin", W("ls"))
    /\ Provides(2, "bin", W("ls"))
    /\ ex[1].cmd.Command = CommandString(WorkDir, CandidateAt(1, "sbin", W("ls")), <<W("-l")>>)

\* C23: resolving the manifest of the unchanged bundle once more gives what
\* the first resolution gave: the same error, or the same commands with the
\* same invocation strings and timeouts.
C23_ResolutionRepeatable ==
    BundleInPlace =>
        LET again == GetDiagnosticCommands(tb, fs)
        IN  /\ IF hist.printed # <<>>
               THEN again.err = hist.printed[1] /\ again.cmds = <<>>
               ELSE again.err = NoErr /\ again.cmds = m.commands
            /\ GetDiagnosticCommands(again.tb, fs).cmds = again.cmds
            /\ GetDiagnosticCommands(again.tb, fs).err = again.err

\* A manifest has been resolved to a command, and resolving it again gives
\* the command again.
C23_Witness ==
    /\ BundleInPlace
    /\ tb.Playbook.loaded
    /\ Len(m.commands) = 1
    /\ GetDiagnosticCommands(tb, fs).cmds = m.commands

\* The text ends with the given text.
EndsWith(text, end) ==
    Len(text) >= Len(end) /\ SubSeq(text, Len(text) - Len(end) + 1, Len(text)) = end

\* The child process of the Executor ended in an error before its deadline.
FailedInTime(e) == e.pc # "running" /\ e.ran /\ e.proc.failed /\ ~e.proc.deadline

\* C24: when the child process exits with a non-zero status or cannot be
\* started, and the deadline has not expired, the Executor returns an error
\* whose text has the exit information and the output the process produced,
\* and no output; once the result is handled the diagnostic is Failed with
\* this error and has no output.
C24_FailureCarriesOutput ==
    \A k \in 1..Len(ex) :
        FailedInTime(ex[k]) =>
            /\ ex[k].res.err = "command failed"
            /\ ex[k].res.output = EmptyStr
            /\ \E i \in 1..Len(ex[k].res.errText) : ex[k].res.errText[i] = ex[k].proc.err
            /\ EndsWith(ex[k].res.errText, ex[k].proc.output)
            /\ ex[k].pc = "handled" =>
                  /\ m.statuses[ex[k].index] = statusError
                  /\ m.errors[ex[k].index] = ex[k].res.err
                  /\ m.outputs[ex[k].index] = EmptyStr

\* A process that printed a line and exited with a non-zero status has been
\* handled, and one that could not be started.
C24_Witness ==
    \E k \in 1..Len(ex) :
        /\ FailedInTime(ex[k])
        /\ ex[k].pc = "handled"
        /\ ex[k].proc.output # EmptyStr
        /\ m.statuses[ex[k].index] = statusError
        /\ EndsWith(ex[k].res.errText, ex[k].proc.output)

\* No entry of the sequence occurs twice.
NoRepeats(seq) == \A i, j \in 1..Len(seq) : seq[i] = seq[j] => i = j

\* The step launches the Executors.
Launches == ex = <<>> /\ ex' # <<>>

\* C25: the step that sets the RunState entries Running launches, for every
\* ResolvedCommand, one Executor carrying the command and its index, all in
\* that step; afterwards no Executor is added, each delivers one result (it
\* goes from running to delivered to handled and never back), and an entry
\* leaves Running only in the step that handles the result of its Executor.
C25_OneExecutorOneResult ==
    [][ /\ Launches =>
              /\ Len(ex') = Len(m'.commands)
              /\ \A i \in 1..Len(ex') :
                    /\ ex'[i].index = i
                    /\ ex'[i].cmd = m'.commands[i]
                    /\ ex'[i].pc = "running"
                    /\ m'.statuses[i] = statusRunning
        /\ \A i \in 1..Len(m'.statuses) :
              (m'.statuses[i] = statusRunning
                  /\ (i > Len(m.statuses) \/ m.statuses[i] # statusRunning)) => Launches
        /\ ex # <<>> =>
              /\ Len(ex') = Len(ex)
              /\ \A k \in 1..Len(ex) :
                    /\ ex'[k].index = ex[k].index /\ ex'[k].cmd = ex[k].cmd
                    /\ <<ex[k].pc, ex'[k].pc>> \in
                          { <<"running", "running">>, <<"running", "msg">>, <<"msg", "msg">>,
                            <<"msg", "handled">>, <<"handled", "handled">> }
                    /\ ex[k].pc # "running" => ex'[k].res = ex[k].res
                    /\ m'.statuses[k] # m.statuses[k] =>
                          /\ m.statuses[k] = statusRunning
                          /\ ex[k].pc = "msg" /\ ex'[k].pc = "handled"
                          /\ \A j \in 1..Len(ex) : j # k => m'.statuses[j] = m.statuses[j]
        /\ NoRepeats(hist'.launched) /\ NoRepeats(hist'.handled)
        /\ Len(hist'.launched) = Len(ex')
      ]_vars

\* Two Executors were launched in one step, and their results have been
\* handled, the second one's first.
C25_Witness ==
    /\ hist.launched = <<1, 2>>
    /\ hist.handled = <<2, 1>>
    /\ \A k \in 1..Len(ex) : ex[k].pc = "handled"

\* C26: the manifest and the package store are read only after the download
\* has reported success: whenever the resolver has read the bundle or an
\* Executor has started a process, the whole archive has been extracted
\* without an error and the download's message has been handled as a success.
C26_NoReadBeforeExtraction ==
    (hist.resolutions > 0 \/ hist.procs > 0) =>
        /\ dl.pc = "handled"
        /\ dl.err = NoErr
        /\ dl.i = Len(input.archive) + 1
        /\ m.downloaded

\* The resolver has read the bundle once, after the extraction, and an
\* Executor has started its process.
C26_Witness ==
    /\ hist.resolutions = 1
    /\ hist.procs = 1
    /\ dl.pc = "handled" /\ dl.i = Len(input.archive) + 1

\* How many Executors have started a child process.
Started == Cardinality({k \in 1..Len(ex) : ex[k].ran})

\* C27: an Executor called with an invocation string that is empty or only
\* white space, or on a Toolbox without a working directory, returns an error
\* and no output, and starts no child process.
C27_NothingToRunIsAnError ==
    /\ \A k \in 1..Len(ex) :
          (ex[k].pc # "running" /\ (IsBlank(ex[k].cmd.Command) \/ tb.TempDir = NoDir)) =>
              /\ ex[k].res.err # NoErr
              /\ ex[k].res.output = EmptyStr
              /\ ~ex[k].ran
              /\ ex[k].proc = NoProc
    /\ hist.procs = Started

\* On a Toolbox with a working directory an Executor was called with a blank
\* invocation string and another one with a command: the first returned an
\* error without a process, the second ran one.
C27_Witness ==
    /\ tb.TempDir # NoDir
    /\ \E k \in 1..Len(ex) :
          /\ ex[k].pc = "handled"
          /\ ex[k].cmd.Command = W(" ")
          /\ ex[k].res.err = "binary not found in toolbox nix store"
          /\ m.statuses[k] = statusError
    /\ hist.procs = 1

\* The extraction has ended without an error and the working directory has
\* not been removed.
Extracted == dl.pc \in {"msg", "handled"} /\ dl.err = NoErr /\ main.pc = "run"

\* Entry j is the last entry of the archive that names its path.
LastNaming(j) ==
    \A k \in (j + 1)..Len(input.archive) :
        PathJoin(WorkDir, input.archive[k].Name) # PathJoin(WorkDir, input.archive[j].Name)

\* C28: after a successful extraction every regular file has exactly the
\* content of the last archive entry that names it, also when an earlier entry
\* of the same path was longer.
C28_ContentOfLastEntry ==
    Extracted =>
        \A j \in 1..Len(input.archive) :
            (input.archive[j].Typeflag = "reg" /\ LastNaming(j)) =>
                /\ CanReadFile(fs, PathJoin(WorkDir, input.archive[j].Name))
                /\ ReadFileFS(fs, PathJoin(WorkDir, input.archive[j].Name))
                      = input.archive[j].Data

\* The entry has a type Download does not extract.
OtherType(h) == h.Typeflag \notin {"dir", "reg", "symlink"}

\* The path of entry k is not one that the entries up to j name or need as a
\* parent directory.
NotNamedUpTo(k, j) ==
    \A e \in 1..j : ~IsPrefix(PathJoin(WorkDir, input.archive[k].Name),
                               PathJoin(WorkDir, input.archive[e].Name))

\* C29: an archive entry of another type than directory, regular file and
\* symbolic link makes the extraction fail at that entry: the loop never goes
\* past it, no later entry is extracted, the download reports the error, and
\* no command is resolved and no process started.
C29_OtherTypeStopsExtraction ==
    \A j \in 1..Len(input.archive) :
        OtherType(input.archive[j]) =>
            /\ dl.i <= j
            /\ \A k \in (j + 1)..Len(input.archive) :
                  NotNamedUpTo(k, j) =>
                      PathJoin(WorkDir, input.archive[k].Name) \notin DOMAIN fs
            /\ (dl.pc \in {"msg", "handled"} /\ dl.i = j /\ input.corruptAt # j) =>
                  dl.err = "unsupported file type"
            /\ ex = <<>> /\ hist.resolutions = 0 /\ hist.procs = 0
            /\ m.commands = <<>>

\* The extraction has stopped at the hard link that is the third entry, the
\* entries before it are extracted, and the error has been handled.
C29_Witness ==
    /\ dl.i = 3
    /\ Len(input.archive) >= 3
    /\ OtherType(input.archive[3])
    /\ dl.pc = "handled"
    /\ dl.err = "unsupported file type"
    /\ PathJoin(WorkDir, input.archive[2].Name) \in DOMAIN fs
    /\ m.done

\* A second working directory os.MkdirTemp can create.
OtherWorkDir == Append(TempRoot, W("toolbox_2"))

\* The tree below the directory: the node of every path relative to it, with
\* kind, mode, content and link target.
TreeBelow(f, dir) ==
    [p \in {SubSeq(q, Len(dir) + 1, Len(q)) : q \in {x \in DOMAIN f : IsPrefix(dir, x)}}
        |-> f[dir \o p]]

\* The link target is an absolute path below the directory of the working
\* directories.
IntoTempRoot(target) == HasPrefix(target, "/") /\ IsPrefix(TempRoot, Segments(target))

\* The archive is a valid one: every entry has a type that is extracted and a
\* name without traversal segments, and no link of it has the absolute path
\* of a working directory as its target.
ValidArchive(archive) ==
    \A j \in 1..Len(archive) :
        /\ ~OtherType(archive[j])
        /\ ~HasTraversal(archive[j].Name)
        /\ ~IntoTempRoot(archive[j].Linkname)

\* C30: extracting a valid archive into another fresh working directory ends
\* in the same way and gives the same tree of relative paths, kinds, modes,
\* contents and link targets as the extraction of this run.
C30_ExtractionDeterministic ==
    (dl.pc \in {"msg", "handled"} /\ input.source = "ok" /\ input.temp
        /\ input.corruptAt = 0 /\ ValidArchive(input.archive)) =>
        LET other == ExtractFrom(MkdirFS(EmptyFS, OtherWorkDir).fs, OtherWorkDir,
                                 input.archive, 1)
        IN  /\ other.err = dl.err
            /\ TreeBelow(other.fs, OtherWorkDir) = TreeBelow(fs, WorkDir)

\* An archive with a symbolic link and a file written through it has been
\* extracted, and the other working directory has the same tree.
C30_Witness ==
    /\ dl.pc = "msg" /\ dl.err = NoErr
    /\ \E j \in 1..Len(input.archive) : input.archive[j].Typeflag = "symlink"
    /\ ValidArchive(input.archive)
    /\ Cardinality(DOMAIN TreeBelow(fs, WorkDir)) > 8
    /\ TreeBelow(ExtractFrom(MkdirFS(EmptyFS, OtherWorkDir).fs, OtherWorkDir,
                             input.archive, 1).fs, OtherWorkDir) = TreeBelow(fs, WorkDir)


\* The positions of the headings in the text of the user message.
Headings(text) ==
    SelectSeq([p \in 1..Len(text) |-> p], LAMBDA p : text[p] = "Command ")

\* The manifest positions of the pairs whose output is not empty and not of
\* white space only, in manifest order.
Retained(commands) ==
    SelectSeq([i \in 1..Len(commands) |-> i], LAMBDA i : ~IsBlank(commands[i].Output))

\* C31: the text sent to the summarization collaborator has one block per
\* pair whose output is neither empty nor of white space only, in manifest
\* order, each headed by the pair's 1-based manifest position and holding its
\* description and output; no Failed diagnostic has a block.
C31_TextListsRetainedPairs ==
    llm.pc \in {"msg", "handled"} =>
        LET text == llm.userContent
            pos  == Headings(text)
            kept == Retained(llm.commands)
            end(k) == IF k = Len(pos) THEN Len(text) ELSE pos[k + 1] - 1
        IN  /\ Len(pos) = Len(kept)
            /\ Len(kept) = 0 => text = EmptyStr
            /\ Len(kept) > 0 => pos[1] = 1
            /\ \A k \in 1..Len(kept) :
                  SubSeq(text, pos[k], end(k)) =
                      <<"Command ", ToString(kept[k]), ": ">>
                          \o tb.Playbook.Commands[kept[k]].Description
                          \o <<"\n">> \o m.outputs[kept[k]] \o <<"\n", "\n">>
            /\ \A i \in 1..Len(m.statuses) :
                  m.statuses[i] = statusError =>
                      /\ llm.commands[i].Output = EmptyStr
                      /\ \A k \in 1..Len(kept) : kept[k] # i

\* C31's case: the first diagnostic printed white space only, the second one
\* a line, and the text has been built.
C31_Witness ==
    /\ llm.pc = "msg" /\ Len(llm.commands) = 2
    /\ llm.commands[1].Output = <<"\n">>
    /\ llm.commands[2].Output = <<"hi", "\n">>
    /\ llm.userContent[2] = "2"


\* An API key counts as set when it holds more than white space.
KeySet(k) == ~IsBlank(k)

\* C34: the provider is chosen by priority: Anthropic with ANTHROPIC_API_KEY
\* if it is set; else OpenRouter if OPENROUTER_API_KEY is set or
\* OPENAI_API_KEY starts with sk-or-v1-; else OpenAI with OPENAI_API_KEY if
\* it is set; OPENAI_BASE_URL replaces the base URL on the OpenAI/OpenRouter
\* path only.  A key of white space only counts as not set.
C34_ProviderByPriority ==
    LET s == m.summarizer
        a == env.ANTHROPIC_API_KEY
        r == env.OPENROUTER_API_KEY
        o == env.OPENAI_API_KEY
        base == env.OPENAI_BASE_URL
        router == KeySet(r) \/ HasPrefix(o, "sk-or-v1-")
    IN  /\ KeySet(a) =>
              /\ ~s.disabled /\ s.provider = "anthropic"
              /\ s.apiKey = a /\ s.baseURL = EmptyStr
        /\ (~KeySet(a) /\ router) =>
              /\ ~s.disabled /\ s.provider = "openai"
              /\ s.model = W("openai/gpt-4.1")
              /\ s.apiKey = (IF KeySet(r) THEN r ELSE o)
              /\ s.baseURL = (IF base # EmptyStr THEN base ELSE OpenRouterURL)
        /\ (~KeySet(a) /\ ~router /\ KeySet(o)) =>
              /\ ~s.disabled /\ s.provider = "openai"
              /\ s.model = W("gpt-4.1")
              /\ s.apiKey = o /\ s.baseURL = base


\* A summarization request has been issued and its summary-result message
\* has not been processed yet.
SummaryOutstanding == llm.pc \in {"running", "msg"}

\* C37: the flag that shows summarization as in progress is true exactly when
\* a summarization request has been issued and its summary-result message has
\* not yet been processed.
C37_SummarizingIffOutstanding == m.summarizing <=> SummaryOutstanding


\* The Executors whose result the event loop has processed.
Processed == {k \in 1..Len(ex) : ex[k].pc = "handled"}

\* C39: the status, output and error arrays are as long as the resolved
\* command list, and every result that is delivered or processed carries an
\* index inside that range.
C39_ArraysMatchCommands ==
    /\ Len(m.statuses) = Len(m.commands)
    /\ Len(m.outputs) = Len(m.commands)
    /\ Len(m.errors) = Len(m.commands)
    /\ \A k \in 1..Len(ex) : ex[k].index \in 1..Len(m.commands)

\* C39's case: the results of two diagnostics were processed, the second
\* one first.
C39_Witness ==
    /\ Len(m.commands) = 2 /\ Processed = {1, 2}
    /\ hist.handled = <<2, 1>>
    /\ ex[2].index = 2

\* C40: for each diagnostic an error is recorded if and only if its status
\* is Failed, and an output that is not empty is recorded only if its status
\* is Succeeded.
C40_ErrorIffFailed ==
    \A i \in 1..Len(m.statuses) :
        /\ (i \in 1..Len(m.errors) /\ m.errors[i] # NoErr) <=> m.statuses[i] = statusError
        /\ (i \in 1..Len(m.outputs) /\ m.outputs[i] # EmptyStr) => m.statuses[i] = statusSuccess

\* C40's case: one diagnostic failed and one succeeded with output.
C40_Witness ==
    /\ Len(m.statuses) = 2
    /\ m.statuses[1] = statusError /\ m.errors[1] = "command failed"
    /\ m.outputs[1] = EmptyStr
    /\ m.statuses[2] = statusSuccess /\ m.outputs[2] # EmptyStr


\* The event loop processes the summary-result message in this step.
ProcessesSummaryResult == llm.pc = "msg" /\ llm'.pc = "handled"

\* C33: processing a summary-result message changes no diagnostic's status,
\* output or error; of a failed summarization only the summary error is
\* recorded (and summarization is no longer shown as in progress).
C33_SummaryResultLeavesRunState ==
    [][ProcessesSummaryResult =>
          /\ m'.statuses = m.statuses
          /\ m'.outputs = m.outputs
          /\ m'.errors = m.errors
          /\ m'.commands = m.commands
          /\ llm.result.err # NoErr =>
                m' = [m EXCEPT !.summarizing = FALSE, !.summaryErr = llm.result.err]]_vars

\* C33's case: the summarization failed and its message was processed while
\* a diagnostic is Succeeded.
C33_Witness ==
    /\ llm.pc = "handled" /\ llm.result.err # NoErr
    /\ m.summaryErr = llm.result.err
    /\ \E i \in 1..Len(m.statuses) : m.statuses[i] = statusSuccess


\* The Orchestrator is in Done: the trigger has fired (or the manifest has no
\* diagnostics) and no summary result is still to come.
InDone == OrchestratorDone /\ ~SummaryOutstanding

\* C32: Done is terminal.  A step taken in Done (a tick, a key, a mouse
\* event, a resize, a drawing of the view, also a quit) changes no
\* diagnostic's status, output or error, neither the summary, the summary
\* error nor the notice, starts no Executor and no summarization call, and
\* leaves the Orchestrator in Done.
C32_DoneIsTerminal ==
    [][InDone =>
          /\ m'.statuses = m.statuses
          /\ m'.outputs = m.outputs
          /\ m'.errors = m.errors
          /\ m'.summary = m.summary
          /\ m'.summaryErr = m.summaryErr
          /\ m'.summaryNotice = m.summaryNotice
          /\ ex' = ex
          /\ llm' = llm
          /\ hist'.procs = hist.procs
          /\ hist'.summarizeCalls = hist.summarizeCalls
          /\ InDone']_vars

\* C32's case: in Done with a summary, after the details were toggled, the
\* window was resized and the view was drawn and scrolled back up.
C32_Witness ==
    /\ InDone /\ m.summary # EmptyStr
    /\ m.showDetails /\ m.spin = 1
    /\ m.vp.width = 80 /\ m.vp.height = 23
    /\ ~m.requestScrollToBottom /\ m.vp.yOffset = 0


\* C36: for every interleaving of a user quit with the download task, no
\* working directory remains on disk once the process has exited after the
\* teardown.
C36_NoDirectoryAfterQuit == TornDown => ~WorkDirExists


\* The argv the spec gives for the command resolved from `template` in the
\* bundle below `root`: the wrapper, "-b", the bind of the package store, a
\* binary of the template's name in a package's bin or sbin, and the
\* template's arguments.
IsResolvedArgv(argv, root, template) ==
    LET parts   == Fields(template)
        toolbox == Append(root, W("toolbox"))
    IN  /\ Len(argv) = 3 + Len(parts)
        /\ argv[1] = PathString(Append(toolbox, W("proot")))
        /\ argv[2] = W("-b")
        /\ argv[3] = PathString(toolbox) \o <<"/", "nix:", "/", "nix">>
        /\ \E pkg \in {SortedNames[i] : i \in 1..Len(SortedNames)}, dir \in {"bin", "sbin"} :
              argv[4] = PathString(toolbox \o <<W("nix"), W("store"), pkg, W(dir), parts[1]>>)
        /\ \A j \in 2..Len(parts) : argv[3 + j] = parts[j]

\* C35: for every command template of the manifest and every bundle root,
\* the argv the Executor makes of the resolved invocation string is the
\* wrapper path, "-b", "<bundle>/toolbox/nix:/nix", the resolved binary path
\* and the template's arguments in order.
C35_ArgvOfResolvedCommand ==
    tb.Playbook.loaded =>
        \A k \in 1..Len(ex) :
            IsResolvedArgv(Argv(ex[k].cmd), dl.tempDir,
                           tb.Playbook.Commands[ex[k].cmd.Spec].Command)

\* The recorded working directory has been removed and its path cleared.
CleanedUp == hist.removals = 1 /\ tb.TempDir = NoDir

\* C38: a call of Cleanup on a Toolbox with a working directory removes the
\* directory and clears the recorded path if the removal succeeds, and keeps
\* the path and returns an error if it fails; on a Toolbox whose path is
\* cleared it changes nothing and returns no error, so the directory is
\* removed at most once.  After a successful Cleanup an Executor returns an
\* error without starting a process and the resolver returns an empty list
\* without an error.
C38_CleanupIdempotent ==
    /\ hist.removals <= 1
    /\ ~hist.lateAccess
    /\ \A removeOk \in BOOLEAN :
          LET r == Cleanup(tb, fs, removeOk)
          IN  /\ tb.TempDir = NoDir => r = [tb |-> tb, fs |-> fs, err |-> NoErr]
              /\ (tb.TempDir # NoDir /\ removeOk) =>
                    /\ r.err = NoErr /\ r.tb.TempDir = NoDir
                    /\ \A p \in DOMAIN r.fs : ~IsPrefix(tb.TempDir, p)
                    /\ \A again \in BOOLEAN :
                          Cleanup(r.tb, r.fs, again) = [tb |-> r.tb, fs |-> r.fs, err |-> NoErr]
              /\ (tb.TempDir # NoDir /\ ~removeOk) =>
                    /\ r.err # NoErr /\ r.tb = tb
    /\ CleanedUp =>
          /\ \A p \in DOMAIN fs : ~IsPrefix(dl.tempDir, p)
          /\ GetDiagnosticCommands(tb, fs) = [cmds |-> <<>>, err |-> NoErr, tb |-> tb]
          /\ \A k \in 1..Len(ex), proc \in ProcOutcomes :
                LET r == ExecuteDiagnosticCommand(tb, ex[k].cmd, proc)
                IN  r.res.err = "toolbox not downloaded yet" /\ ~r.ran

\* C38's case: the working directory was removed by Cleanup; one Executor
\* had run a process before, another one was called with a command
\* afterwards and returned the error.
C38_Witness ==
    /\ CleanedUp
    /\ Len(ex) = 2
    /\ ex[1].ran
    /\ ex[2].cmd.Command = <<"proot", " ", "ls">>
    /\ ex[2].pc = "msg" /\ ~ex[2].ran /\ ex[2].res.err = "toolbox not downloaded yet"

=============================================================================
